---- MODULE Spec2Model ----
(***************************************************************************)
(* A model of the rule-based resume analyzer (SimpleMLResumeAnalyzer) and  *)
(* of the /analyze handler that shares one analyzer instance.              *)
(***************************************************************************)
EXTENDS Integers, Sequences, FiniteSets, TLC

VARIABLES
    pc,              \* where the one call of SpecOverall and SpecText stands
    sections,        \* analyzeResume's sections: the six section scores
    overall,         \* analyzeResume's overallScore
    resumeText,      \* SpecText: the argument of the call
    argKind,         \* SpecArgs: typeof the argument; resumeText holds a string argument
    outcome,         \* SpecText: what the call has thrown, returned or rejected with
    industry,        \* SpecText: primaryIndustry of generateRoadmap and of suggestRoles
    experienceTier,  \* analyzeResume's experienceLevel
    salaryExpectation, \* what estimateSalary(overallScore, experienceLevel) returned
    returned,        \* SpecMethods: what the method called on its own returned
    mlAnalysis,      \* SpecLevels: what a call of MLResumeAnalyzer.analyzeResume computed
    lastResumeText,  \* the analyzer instance's field this.lastResumeText
    callers,         \* Spec: the async callers that share the analyzer instance
    running,         \* Spec: the caller that holds the JavaScript thread, 0 if none
    history,         \* Spec: the latest completed analyzeResume calls, oldest first
    server           \* SpecServer: the uploads and the /analyze request of server.js

vars == <<pc, sections, overall, resumeText, argKind, outcome, industry,
          experienceTier, salaryExpectation, returned, mlAnalysis,
          lastResumeText, callers, running, history, server>>

(***************************************************************************)
(* IEEE-754 binary64 arithmetic, as far as the weighted sum needs it.      *)
(* A non-negative double below 2^7 whose unit in the last place is at      *)
(* least 2^-56 is the triple <<hi, mid, lo>> standing for                  *)
(*     (hi * 2^48 + mid * 2^24 + lo) / 2^56,                               *)
(* every limb in 0 .. 2^24 - 1.                                            *)
(***************************************************************************)
LimbBase == 2^24

SectionNames == {"skills", "experience", "education", "projects", "achievements", "formatting"}

\* carries propagated so that mid and lo are below LimbBase
Normalize(h, m, l) ==
    LET m1 == m + (l \div LimbBase)
    IN  <<h + (m1 \div LimbBase), m1 % LimbBase, l % LimbBase>>

\* the number of significant bits of h (0 for h = 0)
BitLen(h) == CHOOSE k \in 0..31 : h < 2^k /\ (k = 0 \/ 2^(k - 1) <= h)

\* round to nearest, ties to even, keeping the 53 most significant bits
RoundTo53(x) ==
    LET r == BitLen(x[1]) - 5          \* bits below the 53-bit significand
    IN  IF r <= 0 THEN x
        ELSE LET q    == 2^r
                 rem  == x[3] % q
                 kept == x[3] - rem
                 up   == rem * 2 > q \/ (rem * 2 = q /\ (x[3] \div q) % 2 = 1)
             IN  Normalize(x[1], x[2], IF up THEN kept + q ELSE kept)

\* n * d for an integer n in 0..100 and a double d
FloatMul(n, d) == RoundTo53(Normalize(n * d[1], n * d[2], n * d[3]))

FloatAdd(a, b) == RoundTo53(Normalize(a[1] + b[1], a[2] + b[2], a[3] + b[3]))

\* a faulty variant of Math.round: Math.floor
MathFloor(x) == x[1] \div 256

\* Math.round: the nearest integer, a tie going up
MathRound(x) == (x[1] \div 256) + (IF x[1] % 256 >= 128 THEN 1 ELSE 0)

(***************************************************************************)
(* The doubles of estimateSalary.  The quotient score / 100 and the        *)
(* multiplier are kept in a finer format: <<hi, mid, lo>> stands for       *)
(* (hi * 2^48 + mid * 2^24 + lo) / 2^64.                                   *)
(***************************************************************************)
\* the remainders of the long division of n * 2^64 by d, limb after limb
DivRem1(n, d) == (n * 65536) % d
DivRem2(n, d) == (DivRem1(n, d) * LimbBase) % d
DivRem3(n, d) == (DivRem2(n, d) * LimbBase) % d

\* the quotient n / d truncated to 64 fractional bits
TruncatedQuotient(n, d) ==
    <<(n * 65536) \div d, (DivRem1(n, d) * LimbBase) \div d, (DivRem2(n, d) * LimbBase) \div d>>

\* the bits lost by a truncation kept as one bit below every rounding position
WithSticky(x, inexact) ==
    IF inexact /\ x[3] % 2 = 0 THEN <<x[1], x[2], x[3] + 1>> ELSE x

\* n / d for integers n in 0..100 and d in 1..100, rounded as a double
FloatDiv(n, d) == RoundTo53(WithSticky(TruncatedQuotient(n, d), DivRem3(n, d) # 0))

\* the double nearest to the literal 0.2, and the double 1
PointTwo == <<13107, 3355443, 3355648>>
One      == <<65536, 0, 0>>

FloatLess(a, b) ==
    \/ a[1] < b[1]
    \/ a[1] = b[1] /\ a[2] < b[2]
    \/ a[1] = b[1] /\ a[2] = b[2] /\ a[3] < b[3]

\* Math.min
MathMin(a, b) == IF FloatLess(b, a) THEN b ELSE a

\* a double of the finer format in the format of the section above; exact for
\* a double of at least 2^-3
Coarse(x) ==
    <<x[1] \div 256, (x[1] % 256) * 65536 + x[2] \div 256, (x[2] % 256) * 65536 + x[3] \div 256>>

\* the 12-bit digits of the fraction below hi, least significant first
Digits12(x) == <<x[3] % 4096, x[3] \div 4096, x[2] % 4096, x[2] \div 4096>>

\* n * digits, digit after digit from the i-th on, ending with the carry out
RECURSIVE MulDigits(_, _, _, _)
MulDigits(n, digits, i, carry) ==
    IF i > Len(digits) THEN <<carry>>
    ELSE <<(n * digits[i] + carry) % 4096>>
           \o MulDigits(n, digits, i + 1, (n * digits[i] + carry) \div 4096)

FromDigits12(hi, r) == <<hi + r[5], r[4] * 4096 + r[3], r[2] * 4096 + r[1]>>

\* n * d for an integer n below 2^18 and a double d of at most 1
WideMul(n, d) == RoundTo53(FromDigits12(n * d[1], MulDigits(n, Digits12(d), 1, 0)))

\* the doubles nearest to the literals 0.25, 0.15 and 0.10
Weight025 == <<64, 0, 0>>
Weight015 == <<38, 6710886, 6710886>>
Weight010 == <<25, 10066329, 10066330>>

\* analyzeResume, the weighted average of the section scores
OverallScore(s) ==
    MathRound(
        FloatAdd(FloatAdd(FloatAdd(FloatAdd(FloatAdd(
            FloatMul(s.skills, Weight025),
            FloatMul(s.experience, Weight025)),
            FloatMul(s.education, Weight015)),
            FloatMul(s.projects, Weight015)),
            FloatMul(s.achievements, Weight010)),
            FloatMul(s.formatting, Weight010)))

\* round((25 skills + 25 experience + 15 education + 15 projects
\*        + 10 achievements + 10 formatting) / 100), computed exactly
ExactWeightedRound(s) ==
    (25 * s.skills + 25 * s.experience + 15 * s.education + 15 * s.projects
       + 10 * s.achievements + 10 * s.formatting + 50) \div 100

(***************************************************************************)
(* Strings.  A resume text is a sequence of lines; the raw text handed to  *)
(* the analyzer is the lines joined by "\n".                               *)
(***************************************************************************)
Char(s, i) == SubSeq(s, i, i)

UpperCaseLetters == "ABCDEFGHIJKLMNOPQRSTUVWXYZ"
LowerCaseLetters == "abcdefghijklmnopqrstuvwxyz"
DigitChars       == "0123456789"

CharsOf(s) == {Char(s, i) : i \in 1..Len(s)}

UpperSet == CharsOf(UpperCaseLetters)
LowerSet == CharsOf(LowerCaseLetters)
DigitSet == CharsOf(DigitChars)
\* \s
WhitespaceSet == {" ", "\n", "\t", "\r"}
\* \w and the complement of the tokenizer's separator class
WordCharSet == UpperSet \cup LowerSet \cup DigitSet \cup {"_"}

LowerChar(c) ==
    IF c \in UpperSet
    THEN Char(LowerCaseLetters, CHOOSE i \in 1..26 : Char(UpperCaseLetters, i) = c)
    ELSE c

RECURSIVE LowerBetween(_, _, _)
\* the characters lo..hi of s in lower case
LowerBetween(s, lo, hi) ==
    IF lo > hi THEN ""
    ELSE IF lo = hi THEN LowerChar(Char(s, lo))
    ELSE LowerBetween(s, lo, (lo + hi) \div 2)
             \o LowerBetween(s, (lo + hi) \div 2 + 1, hi)

\* String.prototype.toLowerCase
ToLowerCase(s) == LowerBetween(s, 1, Len(s))

\* String.prototype.includes
Includes(s, t) ==
    \E i \in 1..(Len(s) - Len(t) + 1) : SubSeq(s, i, i + Len(t) - 1) = t

\* t occurs in s at position i
OccursAt(s, i, t) == i + Len(t) - 1 <= Len(s) /\ SubSeq(s, i, i + Len(t) - 1) = t

\* the least element of a non-empty set of integers
Least(S) == CHOOSE j \in S : \A k \in S : j <= k

\* the length of a run that starts at i and stops before the least of ends
RunLenTo(s, i, ends) ==
    IF ends = {} THEN (IF i > Len(s) THEN 0 ELSE Len(s) - i + 1) ELSE Least(ends) - i

\* the length of the longest run of characters of set that starts at i
RunLen(s, i, set) == RunLenTo(s, i, {j \in i..Len(s) : Char(s, j) \notin set})

\* String.prototype.trim().length
TrimmedLength(s) ==
    Cardinality({i \in 1..Len(s) :
                    /\ \E j \in 1..i : Char(s, j) \notin WhitespaceSet
                    /\ \E k \in i..Len(s) : Char(s, k) \notin WhitespaceSet})

RECURSIVE JoinLines(_, _)
JoinLines(text, i) ==
    IF i > Len(text) THEN ""
    ELSE IF i = Len(text) THEN text[i]
    ELSE text[i] \o "\n" \o JoinLines(text, i + 1)

\* the raw resume text of a sequence of lines
RawText(text) == JoinLines(text, 1)

RECURSIVE SumSeq(_)
SumSeq(q) == IF q = <<>> THEN 0 ELSE Head(q) + SumSeq(Tail(q))

RECURSIVE Flatten(_)
Flatten(qq) == IF qq = <<>> THEN <<>> ELSE Head(qq) \o Flatten(Tail(qq))

Min(a, b) == IF a < b THEN a ELSE b
Max(a, b) == IF a > b THEN a ELSE b

\* the number of elements of q that satisfy Test
CountIf(q, Test(_)) == Len(SelectSeq(q, Test))

\* a faulty variant of slice(0, n): one element too many
SliceThrough(q, n) == SubSeq(q, 1, Min(n + 1, Len(q)))

\* Array.prototype.slice(0, n)
Slice(q, n) == SubSeq(q, 1, Min(n, Len(q)))

(***************************************************************************)
(* preprocessText: lower-casing, character filtering, tokenizing, stopword *)
(* removal and stemming.                                                   *)
(***************************************************************************)
\* the characters /[^a-zA-Z0-9\s\-\/\+\#\.\@\_\(\)]/ leaves in place
KeptCharSet ==
    UpperSet \cup LowerSet \cup DigitSet \cup WhitespaceSet
        \cup {"-", "/", "+", "#", ".", "@", "_", "(", ")"}

RECURSIVE ReplaceBetween(_, _, _)
\* the characters lo..hi of s, a space for each that is not kept
ReplaceBetween(s, lo, hi) ==
    IF lo > hi THEN ""
    ELSE IF lo = hi THEN (IF Char(s, lo) \in KeptCharSet THEN Char(s, lo) ELSE " ")
    ELSE ReplaceBetween(s, lo, (lo + hi) \div 2)
             \o ReplaceBetween(s, (lo + hi) \div 2 + 1, hi)

RemoveSpecialChars(s) == ReplaceBetween(s, 1, Len(s))

RECURSIVE TokensFrom(_, _)
\* the token of n characters at j, then the tokens after it
TokenAt(s, j, n) == <<SubSeq(s, j, j + n - 1)>> \o TokensFrom(s, j + n)

\* the tokens that start at the positions starts
TokensAt(s, starts) ==
    IF starts = {} THEN <<>>
    ELSE TokenAt(s, Least(starts), RunLen(s, Least(starts), WordCharSet))

\* natural.WordTokenizer: the maximal runs of word characters from i on
TokensFrom(s, i) == TokensAt(s, {j \in i..Len(s) : Char(s, j) \in WordCharSet})

Tokenize(s) == TokensFrom(s, 1)

\* the English list of the stopword package
Stopwords ==
    {"about", "after", "all", "also", "am", "an", "and", "another", "any", "are",
     "as", "at", "be", "because", "been", "before", "being", "between", "both",
     "but", "by", "came", "can", "come", "could", "did", "do", "each", "for",
     "from", "get", "got", "has", "had", "he", "have", "her", "here", "him",
     "himself", "his", "how", "if", "in", "into", "is", "it", "like", "make",
     "many", "me", "might", "more", "most", "much", "must", "my", "never", "now",
     "of", "on", "only", "or", "other", "our", "out", "over", "said", "same",
     "see", "should", "since", "some", "still", "such", "take", "than", "that",
     "the", "their", "them", "then", "there", "these", "they", "this", "those",
     "through", "to", "too", "under", "up", "very", "was", "way", "we", "well",
     "were", "what", "where", "which", "while", "who", "with", "would", "you",
     "your", "a", "i"}

RemoveStopwords(tokens) == SelectSeq(tokens, LAMBDA t : t \notin Stopwords)

\* natural.PorterStemmer on the words of the resume lines below that it changes
PorterStems ==
    [w \in {} |-> w]
    @@ ("software" :> "softwar") @@ ("developer" :> "develop") @@ ("years" :> "year")
    @@ ("experience" :> "experi") @@ ("registered" :> "regist") @@ ("nurse" :> "nurs")
    @@ ("providing" :> "provid") @@ ("clinical" :> "clinic") @@ ("city" :> "citi")
    @@ ("hospital" :> "hospit") @@ ("skills" :> "skill") @@ ("tools" :> "tool")
    @@ ("redis" :> "redi") @@ ("communication" :> "commun")
    @@ ("departments" :> "depart") @@ ("increased" :> "increas") @@ ("sales" :> "sale")
    @@ ("reduced" :> "reduc") @@ ("costs" :> "cost")
    @@ ("worked" :> "work") @@ ("yrs" :> "yr") @@ ("tasks" :> "task")
    @@ ("projects" :> "project") @@ ("management" :> "manag")
    @@ ("marketing" :> "market") @@ ("awards" :> "award")
    @@ ("certification" :> "certif") @@ ("users" :> "user")
    @@ ("example" :> "exampl") @@ ("references" :> "refer") @@ ("available" :> "avail")
    @@ ("platforms" :> "platform") @@ ("kubernetes" :> "kubernet")

Stem(token) == IF token \in DOMAIN PorterStems THEN PorterStems[token] ELSE token

StemAll(tokens) == [i \in 1..Len(tokens) |-> Stem(tokens[i])]

\* preprocessText on one string
PreprocessString(s) ==
    StemAll(RemoveStopwords(Tokenize(RemoveSpecialChars(ToLowerCase(s)))))

(***************************************************************************)
(* The regular expressions the analyzer applies to the raw text.  Each     *)
(* scanner gives, for a position, the length of the match that starts      *)
(* there (0 for none); String.prototype.match with the g flag takes the    *)
(* matches from left to right without overlap.                             *)
(***************************************************************************)
\* the length of the first of the literals that occurs in s at i, else 0
LiteralLenAt(s, i, literals) ==
    IF \E k \in 1..Len(literals) : OccursAt(s, i, literals[k])
    THEN Len(literals[CHOOSE k \in 1..Len(literals) :
                          /\ OccursAt(s, i, literals[k])
                          /\ \A j \in 1..(k - 1) : ~OccursAt(s, i, literals[j])])
    ELSE 0

\* the first of two alternatives that matches
FirstMatch(a, b) == IF a > 0 THEN a ELSE b

\* two parts in sequence: both must match
BothMatch(a, b) == IF a = 0 \/ b = 0 THEN 0 ELSE a + b

\* an optional part before a part that must match
ThenMatch(optional, b) == IF b = 0 THEN 0 ELSE optional + b

\* (?:year|yr)s? after a unit of u characters at j
YearUnitLen(s, j, u) ==
    IF u = 0 THEN 0 ELSE u + (IF OccursAt(s, j + u, "s") THEN 1 ELSE 0)

\* \s*(?:year|yr)s? after w white-space characters at j
SpacedYearUnitLen(s, j, w) ==
    ThenMatch(w, YearUnitLen(s, j + w, LiteralLenAt(s, j + w, <<"year", "yr">>)))

\* /\d+\s*(?:year|yr)s?/ after d digits at i
YearMentionLen(s, i, d) ==
    BothMatch(d, SpacedYearUnitLen(s, i + d, RunLen(s, i + d, WhitespaceSet)))

\* /\d+\s*(?:year|yr)s?/ at i of a lower-cased string; 0 when it does not match
YearMentionLenAt(s, i) == YearMentionLen(s, i, RunLen(s, i, DigitSet))

\* scoreExperienceSection: /\d+\s*(?:year|yr)s?|month|present|current/gi
TimeMentionLenAt(s, i) ==
    FirstMatch(YearMentionLenAt(s, i), LiteralLenAt(s, i, <<"month", "present", "current">>))

\* /\d+[%kmg]/ after d digits at i
SuffixedNumberLen(s, i, d) ==
    IF d > 0 /\ i + d <= Len(s) /\ Char(s, i + d) \in {"%", "k", "m", "g"}
    THEN d + 1 ELSE 0

\* scoreAchievementsSection: /\d+[%kmg]|increase|decrease|improve|reduce/gi
QuantifiedResultLenAt(s, i) ==
    FirstMatch(SuffixedNumberLen(s, i, RunLen(s, i, DigitSet)),
               LiteralLenAt(s, i, <<"increase", "decrease", "improve", "reduce">>))

\* the positions from i on where the time pattern matches
TimeMentionStarts(s, i) == {j \in i..Len(s) : TimeMentionLenAt(s, j) > 0}

RECURSIVE TimeMentionsFrom(_, _)
\* the matches of the time pattern that start at starts or later
TimeMentionsAt(s, starts) ==
    IF starts = {} THEN 0
    ELSE 1 + TimeMentionsFrom(s, Least(starts) + TimeMentionLenAt(s, Least(starts)))

TimeMentionsFrom(s, i) == TimeMentionsAt(s, TimeMentionStarts(s, i))

\* (text.match(timePattern) || []).length, the flags gi
TimeMentions(s) == TimeMentionsFrom(ToLowerCase(s), 1)

\* the positions from i on where the quantified-result pattern matches
QuantifiedStarts(s, i) == {j \in i..Len(s) : QuantifiedResultLenAt(s, j) > 0}

RECURSIVE QuantifiedFrom(_, _)
\* the matches of the quantified-result pattern that start at starts or later
QuantifiedAt(s, starts) ==
    IF starts = {} THEN 0
    ELSE 1 + QuantifiedFrom(s, Least(starts) + QuantifiedResultLenAt(s, Least(starts)))

QuantifiedFrom(s, i) == QuantifiedAt(s, QuantifiedStarts(s, i))

\* (text.match(quantifiedPattern) || []).length, the flags gi
QuantifiedResults(s) == QuantifiedFrom(ToLowerCase(s), 1)

\* \b at the boundary between positions i - 1 and i
WordBoundaryAt(s, i) ==
    (i > 1 /\ Char(s, i - 1) \in WordCharSet) # (i <= Len(s) /\ Char(s, i) \in WordCharSet)

\* (?:year|yr)s?\b after a unit of u characters at j
YearsUnitLen(s, j, u) ==
    IF u = 0 THEN 0
    ELSE IF OccursAt(s, j + u, "s") /\ WordBoundaryAt(s, j + u + 1) THEN u + 1
    ELSE IF WordBoundaryAt(s, j + u) THEN u
    ELSE 0

\* \s*(?:year|yr)s?\b after w white-space characters at j
SpacedYearsUnitLen(s, j, w) ==
    ThenMatch(w, YearsUnitLen(s, j + w, LiteralLenAt(s, j + w, <<"year", "yr">>)))

\* (\d+)\s*(?:year|yr)s?\b after d digits at i
YearsPatternLen(s, i, d) ==
    BothMatch(d, SpacedYearsUnitLen(s, i + d, RunLen(s, i + d, WhitespaceSet)))

\* classifyExperienceLevel: /\b(\d+)\s*(?:year|yr)s?\b/gi at i
YearsPatternLenAt(s, i) ==
    IF WordBoundaryAt(s, i) THEN YearsPatternLen(s, i, RunLen(s, i, DigitSet)) ELSE 0

DigitValue(c) == (CHOOSE i \in 1..10 : Char(DigitChars, i) = c) - 1

RECURSIVE ParseDigits(_, _, _)
ParseDigits(s, i, acc) ==
    IF i <= Len(s) /\ Char(s, i) \in DigitSet
    THEN ParseDigits(s, i + 1, acc * 10 + DigitValue(Char(s, i)))
    ELSE acc

\* parseInt of a string that starts with a digit
ParseInt(s) == ParseDigits(s, 1, 0)

RECURSIVE YearsMatchesFrom(_, _, _)
\* the match of n characters at j, then the matches after it
YearsMatchAt(s, lower, j, n) ==
    <<SubSeq(s, j, j + n - 1)>> \o YearsMatchesFrom(s, lower, j + n)

\* the matches that start at the positions starts
YearsMatchesAt(s, lower, starts) ==
    IF starts = {} THEN <<>>
    ELSE YearsMatchAt(s, lower, Least(starts), YearsPatternLenAt(lower, Least(starts)))

\* text.match(yearsPattern): the matched substrings from i on, left to right;
\* lower is s in lower case (the flag i)
YearsMatchesFrom(s, lower, i) ==
    YearsMatchesAt(s, lower, {j \in i..Len(s) : YearsPatternLenAt(lower, j) > 0})

\* text.match(yearsPattern) || []
YearsMatchesIn(s) == YearsMatchesFrom(s, ToLowerCase(s), 1)

\* the characters /[-•*]/ counts that a line of ASCII text can hold
BulletSet == {"-", "*"}

\* /[A-Z][a-z]+/g: every match starts at a capital followed by a small letter
CapitalizedWordCount(s) ==
    Cardinality({i \in 1..(Len(s) - 1) :
                    Char(s, i) \in UpperSet /\ Char(s, i + 1) \in LowerSet})

CountChars(s, set) == Cardinality({i \in 1..Len(s) : Char(s, i) \in set})

\* generateRecommendations: /[\d+%$]|increase|decrease|improve|reduce|save|generate/i
QuantificationTest(s) ==
    \/ \E i \in 1..Len(s) : Char(s, i) \in DigitSet \cup {"+", "%", "$"}
    \/ \E w \in {"increase", "decrease", "improve", "reduce", "save", "generate"} :
           Includes(ToLowerCase(s), w)

(***************************************************************************)
(* The resume lines the texts of the model are made of.                    *)
(***************************************************************************)
TechLine      == "Senior Software Developer with 5 years of web app experience"
NurseLine     == "Registered Nurse providing clinical patient care at City Hospital"
SkillsLine    == "Skills: JavaScript, Python, Java, React, Angular, Vue, Node"
ToolsLine     == "Tools: Express, Django, Spring, Docker, Git, MySQL, Redis"
PlusLine      == "Communication + teamwork + leadership across departments"
SalesLine     == "Increased sales by 40% in 2 yrs and reduced retail costs"
WorkLine      == "Worked in a support role: current work tasks and design work"
ProjectLine   == "Projects: built a portfolio in 1 year, project built for school"
DegreeLine    == "Bachelor BS, Master MS, PhD, MBA in management and marketing"
AwardLine     == "Awards: success award, certification award, 10k users in 3 years"
ContactLine   == "Contact: jane.doe@example.com in Boston"
ReferenceLine == "References available on request by email  "
BlankLine     == "    "
PlatformLine  == "Platforms: Docker, Kubernetes, Linux, Swift, Kotlin, Android"
FrontendLine  == "Frontend: React, Vue, HTML, CSS, Bootstrap, Webpack"
BulletLine    == "- Git and SQL * Go and PHP - Rust"

Lines ==
    {TechLine, NurseLine, SkillsLine, ToolsLine, PlusLine, SalesLine, WorkLine,
     ProjectLine, DegreeLine, AwardLine, ContactLine, ReferenceLine, BlankLine,
     PlatformLine, FrontendLine, BulletLine}

\* what the analyzer's string operations make of each line
LineTokens         == [l \in Lines |-> PreprocessString(l)]
LineBullets        == [l \in Lines |-> CountChars(l, BulletSet)]
LineColons         == [l \in Lines |-> CountChars(l, {":"})]
LineCapitals       == [l \in Lines |-> CapitalizedWordCount(l)]
LineTimeMentions   == [l \in Lines |-> TimeMentions(l)]
LineQuantified     == [l \in Lines |-> QuantifiedResults(l)]
LineYearsMatches   == [l \in Lines |-> YearsMatchesIn(l)]
LineQuantification == [l \in Lines |-> QuantificationTest(l)]

\* No line ends in a digit or starts with "year" or "yr", so no match of a
\* pattern spans a line break and a count over a text is the sum over its lines.
SumOverLines(text, counts) == SumSeq([i \in 1..Len(text) |-> counts[text[i]]])

\* preprocessText(resumeText)
PreprocessText(text) == Flatten([i \in 1..Len(text) |-> LineTokens[text[i]]])

(***************************************************************************)
(* The keyword tables of the constructor, in the order of their keys.      *)
(***************************************************************************)
industryKeywords ==
    << [name |-> "frontend", keywords |-> <<"javascript", "react", "vue", "angular", "html", "css", "typescript", "nodejs", "webpack", "bootstrap">>],
       [name |-> "backend", keywords |-> <<"python", "java", "nodejs", "express", "mongodb", "postgresql", "api", "rest", "microservices", "spring">>],
       [name |-> "data_science", keywords |-> <<"python", "r", "sql", "pandas", "numpy", "machine learning", "tensorflow", "scikit-learn", "data analysis">>],
       [name |-> "devops", keywords |-> <<"docker", "kubernetes", "aws", "jenkins", "ci/cd", "terraform", "ansible", "linux", "bash">>],
       [name |-> "mobile", keywords |-> <<"react native", "flutter", "swift", "kotlin", "android", "ios", "mobile development">>] >>

skillCategories ==
    << [name |-> "programming_languages", keywords |-> <<"javascript", "python", "java", "c++", "c#", "go", "rust", "php">>],
       [name |-> "frameworks", keywords |-> <<"react", "vue", "angular", "express", "django", "spring", "laravel">>],
       [name |-> "databases", keywords |-> <<"mysql", "postgresql", "mongodb", "redis", "oracle", "sql server">>],
       [name |-> "tools", keywords |-> <<"git", "docker", "kubernetes", "aws", "azure", "jenkins", "webpack">>],
       [name |-> "soft_skills", keywords |-> <<"communication", "leadership", "teamwork", "problem solving", "agile">>] >>

\* generateRoadmap's industryIndicators
roadmapIndustryIndicators ==
    << [name |-> "technology", keywords |-> <<"software", "developer", "programmer", "coding", "web", "app", "mobile", "frontend", "backend", "fullstack">>],
       [name |-> "business", keywords |-> <<"manager", "marketing", "sales", "business", "finance", "accounting", "hr", "operations">>],
       [name |-> "healthcare", keywords |-> <<"doctor", "nurse", "medical", "healthcare", "hospital", "pharmacy", "clinical">>],
       [name |-> "education", keywords |-> <<"teacher", "professor", "educator", "teaching", "school", "university", "training">>],
       [name |-> "engineering", keywords |-> <<"engineer", "civil", "mechanical", "electrical", "chemical", "design">>],
       [name |-> "creative", keywords |-> <<"designer", "artist", "creative", "graphic", "content", "writer", "photographer">>],
       [name |-> "service", keywords |-> <<"customer service", "hospitality", "hotel", "restaurant", "retail", "sales">>],
       [name |-> "legal", keywords |-> <<"lawyer", "legal", "attorney", "court", "judge", "paralegal">>],
       [name |-> "government", keywords |-> <<"government", "public", "police", "fire", "military", "defense">>],
       [name |-> "finance", keywords |-> <<"banking", "investment", "finance", "accountant", "financial", "insurance">>] >>

\* suggestRoles' industryIndicators
rolesIndustryIndicators ==
    << [name |-> "technology", keywords |-> <<"software", "developer", "programmer", "coding", "web", "app", "mobile", "frontend", "backend", "fullstack", "react", "angular", "vue", "node", "python", "java", "javascript">>],
       [name |-> "business", keywords |-> <<"manager", "marketing", "sales", "business", "finance", "accounting", "hr", "human resources", "operations", "project management", "strategy", "consulting">>],
       [name |-> "healthcare", keywords |-> <<"doctor", "nurse", "medical", "healthcare", "hospital", "pharmacy", "pharmacist", "clinical", "patient care", "therapy", "dentist">>],
       [name |-> "education", keywords |-> <<"teacher", "professor", "educator", "teaching", "school", "university", "training", "instruction", "curriculum", "academic">>],
       [name |-> "engineering", keywords |-> <<"engineer", "civil", "mechanical", "electrical", "chemical", "design", "construction", "manufacturing", "technical">>],
       [name |-> "creative", keywords |-> <<"designer", "artist", "creative", "graphic", "content", "writer", "photographer", "video", "media", "advertising">>],
       [name |-> "service", keywords |-> <<"customer service", "hospitality", "hotel", "restaurant", "retail", "sales", "support", "call center", "client">>],
       [name |-> "legal", keywords |-> <<"lawyer", "legal", "attorney", "court", "judge", "paralegal", "law", "juris", "advocate">>],
       [name |-> "government", keywords |-> <<"government", "public", "police", "fire", "military", "defense", "civil service", "administration", "public service">>],
       [name |-> "finance", keywords |-> <<"banking", "investment", "finance", "accountant", "financial", "insurance", "audit", "tax", "wealth management">>] >>

Range(q) == {q[i] : i \in 1..Len(q)}

RECURSIVE StripSpacesFrom(_, _)
\* the characters of s from i on without the white space at spaces
StripSpacesAt(s, i, spaces) ==
    IF spaces = {} THEN SubSeq(s, i, Len(s))
    ELSE SubSeq(s, i, Least(spaces) - 1) \o StripSpacesFrom(s, Least(spaces) + 1)

StripSpacesFrom(s, i) ==
    StripSpacesAt(s, i, {j \in i..Len(s) : Char(s, j) \in WhitespaceSet})

\* keyword.toLowerCase().replace(/\s+/g, '')
CleanKeyword(keyword) == StripSpacesFrom(ToLowerCase(keyword), 1)

\* token.includes(cleanKeyword) || cleanKeyword.includes(token)
BidirectionalMatch(token, keyword) ==
    Includes(token, CleanKeyword(keyword)) \/ Includes(CleanKeyword(keyword), token)

\* a faulty variant of the pattern test: containment in either direction
EitherWayPattern(token, pattern) == Includes(token, pattern) \/ Includes(pattern, token)

\* token.includes(pattern)
PatternMatch(token, pattern) == Includes(token, pattern)

skillIndicators == <<"skill", "competency", "proficiency", "expertise", "knowledge", "ability">>
experiencePatterns == <<"experience", "work", "position", "role", "responsibility", "duty", "task">>
educationPatterns == <<"education", "degree", "university", "college", "bachelor", "master", "phd", "bs", "ms", "ba", "ma">>
projectPatterns == <<"project", "portfolio", "built", "developed", "created", "designed", "implemented">>
achievementPatterns == <<"achieve", "award", "recognition", "certification", "certified", "accomplishment", "success">>

\* the pattern lists of extractFeatures
featureExperiencePatterns == <<"year", "yr", "experience", "exp", "intern", "internship", "work">>
featureEducationPatterns == <<"bachelor", "master", "phd", "degree", "university", "college", "bs", "ms">>
featureAchievementPatterns == <<"achieve", "award", "recognition", "certification", "certified", "accomplishment">>
quantificationPatterns == <<"increase", "decrease", "improve", "reduce", "save", "generate", "boost">>
featureProjectPatterns == <<"project", "portfolio", "built", "developed", "created", "designed">>

\* every token a line of the model yields, every keyword and every pattern
AllTokens == UNION {Range(LineTokens[l]) : l \in Lines}

KeywordsOf(table) == UNION {Range(table[i].keywords) : i \in 1..Len(table)}

AllKeywords ==
    KeywordsOf(industryKeywords) \cup KeywordsOf(skillCategories)
        \cup KeywordsOf(roadmapIndustryIndicators) \cup KeywordsOf(rolesIndustryIndicators)

AllPatterns ==
    Range(skillIndicators) \cup Range(experiencePatterns) \cup Range(educationPatterns)
        \cup Range(projectPatterns) \cup Range(achievementPatterns)
        \cup Range(featureExperiencePatterns) \cup Range(featureEducationPatterns)
        \cup Range(featureAchievementPatterns) \cup Range(quantificationPatterns)
        \cup Range(featureProjectPatterns)

\* the two matching rules, evaluated once for every token of the model
KeywordMatches == [t \in AllTokens |-> {k \in AllKeywords : BidirectionalMatch(t, k)}]
PatternMatches == [t \in AllTokens |-> {p \in AllPatterns : PatternMatch(t, p)}]

\* keywords.some(keyword => token matches keyword in either direction)
MatchesSome(token, keywords) ==
    \E k \in 1..Len(keywords) : keywords[k] \in KeywordMatches[token]

\* patterns.some(pattern => token.includes(pattern))
IncludesSome(token, patterns) ==
    \E k \in 1..Len(patterns) : patterns[k] \in PatternMatches[token]

\* tokens.filter(token => patterns.some(...)).length
PatternMentions(tokens, patterns) ==
    CountIf(tokens, LAMBDA t : IncludesSome(t, patterns))

\* tokens.filter(token => keywords.some(...)).length
KeywordTokenCount(tokens, keywords) ==
    CountIf(tokens, LAMBDA t : MatchesSome(t, keywords))

\* keywords.filter(keyword => tokens.some(...)): the matched keywords, in order
MatchedKeywords(tokens, keywords) ==
    SelectSeq(keywords, LAMBDA k : \E i \in 1..Len(tokens) : k \in KeywordMatches[tokens[i]])

(***************************************************************************)
(* extractFeatures: the feature vector, an object whose values are doubles *)
(* in the format of score / 100 above.                                     *)
(***************************************************************************)
\* a faulty variant of the normalisation: no Math.min
Unclamped(matches, denominator) == FloatDiv(matches, denominator)

\* Math.min(1, matches / denominator)
Normalized(matches, denominator) == MathMin(One, FloatDiv(matches, denominator))

Feature(key, value) == [key |-> key, value |-> value]

\* lines 54-64 and 67-77: one entry for every key of the table
KeywordFeatures(tokens, table, prefix, denominator) ==
    [i \in 1..Len(table) |->
        Feature(prefix \o table[i].name,
                Normalized(KeywordTokenCount(tokens, table[i].keywords), denominator))]

\* lines 80-112: one entry for a pattern list
IndicatorFeature(tokens, key, patterns, denominator) ==
    Feature(key, Normalized(PatternMentions(tokens, patterns), denominator))

\* the assignments to featureVector, in the order of the code
FeatureEntries(tokens) ==
    KeywordFeatures(tokens, industryKeywords, "industry_", 10)
        \o KeywordFeatures(tokens, skillCategories, "skills_", 5)
        \o << IndicatorFeature(tokens, "experience_indicators", featureExperiencePatterns, 20),
               IndicatorFeature(tokens, "education_indicators", featureEducationPatterns, 10),
               IndicatorFeature(tokens, "achievement_indicators", featureAchievementPatterns, 5),
               IndicatorFeature(tokens, "quantification_indicators", quantificationPatterns, 10),
               IndicatorFeature(tokens, "project_indicators", featureProjectPatterns, 15) >>

\* the last value assigned to key
LastValue(entries, key) ==
    entries[CHOOSE i \in 1..Len(entries) :
                /\ entries[i].key = key
                /\ \A j \in (i + 1)..Len(entries) : entries[j].key # key].value

\* the object the assignments leave
ObjectOf(entries) ==
    [key \in {entries[i].key : i \in 1..Len(entries)} |-> LastValue(entries, key)]

ExtractFeatures(text) == ObjectOf(FeatureEntries(PreprocessText(text)))

(***************************************************************************)
(* The section scorers.                                                    *)
(***************************************************************************)
MaxScore == 100

RECURSIVE TechnicalScoreSum(_, _, _)
\* a faulty variant of the technical score: the categories' counts added up
TechnicalScoreSum(tokens, c, technicalScore) ==
    IF c > Len(skillCategories) THEN technicalScore
    ELSE TechnicalScoreSum(tokens, c + 1,
            technicalScore + KeywordTokenCount(tokens, skillCategories[c].keywords))

RECURSIVE TechnicalScoreFrom(_, _, _)
\* the running maximum over the skill categories
TechnicalScoreFrom(tokens, c, technicalScore) ==
    IF c > Len(skillCategories) THEN technicalScore
    ELSE TechnicalScoreFrom(tokens, c + 1,
            Max(technicalScore, KeywordTokenCount(tokens, skillCategories[c].keywords)))

SkillsFormula(skillMentions, technicalScore) ==
    Min(MaxScore, (skillMentions * 8) + (technicalScore * 6))

SkillsScoreOf(tokens) ==
    SkillsFormula(PatternMentions(tokens, skillIndicators), TechnicalScoreFrom(tokens, 1, 0))

ScoreSkillsSection(text) == SkillsScoreOf(PreprocessText(text))

ExperienceFormula(experienceMentions, timeMentions) ==
    Min(MaxScore, (experienceMentions * 10) + (timeMentions * 5))

ScoreExperienceSection(text) ==
    ExperienceFormula(PatternMentions(PreprocessText(text), experiencePatterns),
                      SumOverLines(text, LineTimeMentions))

EducationFormula(educationMentions) == Min(MaxScore, educationMentions * 15)

ScoreEducationSection(text) ==
    EducationFormula(PatternMentions(PreprocessText(text), educationPatterns))

\* a faulty variant of the projects score: no Math.min
UnclampedProjects(projectMentions) == projectMentions * 20

ProjectsFormula(projectMentions) == Min(MaxScore, projectMentions * 20)

ScoreProjectsSection(text) ==
    ProjectsFormula(PatternMentions(PreprocessText(text), projectPatterns))

\* the number of "\n" in the raw text: the lines hold none
NewlineCount(text) == IF Len(text) = 0 THEN 0 ELSE Len(text) - 1

\* a faulty variant of the formatting score: every threshold met by equality
FormattingAtThreshold(newlines, bullets, colons, capitals) ==
    Min(MaxScore, (IF newlines >= 10 THEN 25 ELSE 10)
                  + (IF bullets >= 5 THEN 25 ELSE 10)
                  + (IF colons >= 3 THEN 20 ELSE 5)
                  + (IF capitals >= 20 THEN 20 ELSE 10))

FormattingFormula(newlines, bullets, colons, capitals) ==
    Min(MaxScore, (IF newlines > 10 THEN 25 ELSE 10)      \* structureScore
                  + (IF bullets > 5 THEN 25 ELSE 10)      \* bulletScore
                  + (IF colons > 3 THEN 20 ELSE 5)        \* sectionScore
                  + (IF capitals > 20 THEN 20 ELSE 10))   \* capitalScore

ScoreFormatting(text) ==
    FormattingFormula(NewlineCount(text), SumOverLines(text, LineBullets),
                      SumOverLines(text, LineColons), SumOverLines(text, LineCapitals))

AchievementsFormula(achievementMentions, quantifiedMatches) ==
    Min(MaxScore, (achievementMentions * 10) + quantifiedMatches * 5)

ScoreAchievementsSection(text) ==
    AchievementsFormula(PatternMentions(PreprocessText(text), achievementPatterns),
                        SumOverLines(text, LineQuantified))

ScoreSections(text) ==
    [skills       |-> ScoreSkillsSection(text),
     experience   |-> ScoreExperienceSection(text),
     education    |-> ScoreEducationSection(text),
     projects     |-> ScoreProjectsSection(text),
     formatting   |-> ScoreFormatting(text),
     achievements |-> ScoreAchievementsSection(text)]

(***************************************************************************)
(* Industry detection, as generateRoadmap and suggestRoles each run it     *)
(* over their own indicator table.                                         *)
(***************************************************************************)
\* matches > maxMatches
\* a faulty variant of the comparison: a tie displaces the earlier industry
DisplacesOnTie(matches, maxMatches) == matches >= maxMatches

\* matches > maxMatches
Displaces(matches, maxMatches) == matches > maxMatches

\* keywords.filter(keyword => tokens.some(...)).length for the i-th industry
IndicatorMatches(tokens, indicators, i) ==
    Len(MatchedKeywords(tokens, indicators[i].keywords))

RECURSIVE DetectFrom(_, _, _, _, _)
RECURSIVE Compare(_, _, _, _, _, _)
\* the forEach over the industries from the i-th on
DetectFrom(tokens, indicators, i, primaryIndustry, maxMatches) ==
    IF i > Len(indicators) THEN primaryIndustry
    ELSE Compare(tokens, indicators, i, primaryIndustry, maxMatches,
                 IndicatorMatches(tokens, indicators, i))

\* if (matches > maxMatches) { maxMatches = matches; primaryIndustry = industry; }
Compare(tokens, indicators, i, primaryIndustry, maxMatches, matches) ==
    IF Displaces(matches, maxMatches)
    THEN DetectFrom(tokens, indicators, i + 1, indicators[i].name, matches)
    ELSE DetectFrom(tokens, indicators, i + 1, primaryIndustry, maxMatches)

DetectIndustry(tokens, indicators) == DetectFrom(tokens, indicators, 1, "general", 0)

(***************************************************************************)
(* generateRecommendations                                                 *)
(***************************************************************************)
\* hasQuantification
HasQuantification(text) == \E i \in 1..Len(text) : LineQuantification[text[i]]

\* a faulty variant of line 236: matches.length < 1
RECURSIVE MissingWithoutMatch(_, _)
MissingWithoutMatch(tokens, i) ==
    IF i > Len(industryKeywords) THEN <<>>
    ELSE (IF Len(MatchedKeywords(tokens, industryKeywords[i].keywords)) < 1
          THEN Slice(industryKeywords[i].keywords, 3)
          ELSE <<>>) \o MissingWithoutMatch(tokens, i + 1)

RECURSIVE MissingKeywordsFrom(_, _)
MissingKeywordsFrom(tokens, i) ==
    IF i > Len(industryKeywords) THEN <<>>
    ELSE (IF Len(MatchedKeywords(tokens, industryKeywords[i].keywords)) < 2
          THEN Slice(industryKeywords[i].keywords, 3)
          ELSE <<>>) \o MissingKeywordsFrom(tokens, i + 1)

LacksQuantified == "Resume lacks quantified achievements"

Recommendation(problem, priority, keywords) ==
    [problem |-> problem, priority |-> priority, keywords |-> keywords]

\* a faulty variant of lines 217-285: the High recommendations first
HighPriorityFirst(s, hasQuantification, missingKeywords) ==
    (IF ~hasQuantification
     THEN <<Recommendation(LacksQuantified, "High", <<>>)>> ELSE <<>>)
 \o (IF s.experience < 60
     THEN <<Recommendation("Experience section needs improvement", "High", <<>>)>>
     ELSE <<>>)
 \o (IF s.skills < 50
     THEN <<Recommendation("Skills section is underdeveloped", "High", <<>>)>>
     ELSE <<>>)
 \o (IF Len(missingKeywords) > 0
     THEN <<Recommendation("Missing industry-standard keywords", "Medium",
                           Slice(missingKeywords, 5))>> ELSE <<>>)
 \o (IF s.achievements < 40
     THEN <<Recommendation("Limited quantified achievements", "Medium", <<>>)>>
     ELSE <<>>)
 \o (IF s.formatting < 50
     THEN <<Recommendation("Formatting and structure need improvement", "Medium", <<>>)>>
     ELSE <<>>)

RecommendationsFrom(s, hasQuantification, missingKeywords) ==
    (IF ~hasQuantification
     THEN <<Recommendation(LacksQuantified, "High", <<>>)>> ELSE <<>>)
 \o (IF Len(missingKeywords) > 0
     THEN <<Recommendation("Missing industry-standard keywords", "Medium",
                           Slice(missingKeywords, 5))>> ELSE <<>>)
 \o (IF s.experience < 60
     THEN <<Recommendation("Experience section needs improvement", "High", <<>>)>>
     ELSE <<>>)
 \o (IF s.skills < 50
     THEN <<Recommendation("Skills section is underdeveloped", "High", <<>>)>>
     ELSE <<>>)
 \o (IF s.achievements < 40
     THEN <<Recommendation("Limited quantified achievements", "Medium", <<>>)>>
     ELSE <<>>)
 \o (IF s.formatting < 50
     THEN <<Recommendation("Formatting and structure need improvement", "Medium", <<>>)>>
     ELSE <<>>)

GenerateRecommendations(text, s) ==
    Slice(RecommendationsFrom(s, HasQuantification(text),
                              MissingKeywordsFrom(PreprocessText(text), 1)), 6)

(***************************************************************************)
(* generateRoadmap                                                         *)
(***************************************************************************)
Step(title, type) == [title |-> title, type |-> type]

industryRoadmaps ==
    [technology |-> <<Step("Master Core Technical Skills", "learn"), Step("Build Practical Projects", "project"), Step("Learn Industry Best Practices", "learn")>>,
     business |-> <<Step("Develop Business Acumen", "learn"), Step("Enhance Communication Skills", "learn"), Step("Gain Leadership Experience", "project")>>,
     healthcare |-> <<Step("Advance Clinical Knowledge", "learn"), Step("Develop Patient Care Skills", "project"), Step("Pursue Specialization", "learn")>>,
     education |-> <<Step("Enhance Teaching Methodologies", "learn"), Step("Develop Curriculum Skills", "project"), Step("Build Educational Technology Skills", "learn")>>,
     engineering |-> <<Step("Strengthen Technical Foundation", "learn"), Step("Gain Practical Experience", "project"), Step("Learn Industry Standards", "learn")>>,
     creative |-> <<Step("Develop Creative Portfolio", "project"), Step("Master Design Tools", "learn"), Step("Understand Market Trends", "learn")>>,
     service |-> <<Step("Enhance Customer Service Skills", "learn"), Step("Learn Service Industry Best Practices", "learn"), Step("Build Management Skills", "project")>>,
     legal |-> <<Step("Deepen Legal Knowledge", "learn"), Step("Develop Analytical Skills", "learn"), Step("Gain Practical Legal Experience", "project")>>,
     government |-> <<Step("Understand Public Policy", "learn"), Step("Develop Civic Engagement Skills", "learn"), Step("Build Leadership in Public Service", "project")>>,
     finance |-> <<Step("Master Financial Analysis", "learn"), Step("Understand Regulatory Framework", "learn"), Step("Gain Investment Experience", "project")>>,
     general |-> <<Step("Develop Professional Skills", "learn"), Step("Build Industry Knowledge", "learn"), Step("Create Professional Network", "project")>>]

\* the industry generateRoadmap detects
RoadmapIndustry(text) == DetectIndustry(PreprocessText(text), roadmapIndustryIndicators)

\* industryRoadmaps[primaryIndustry] || industryRoadmaps['general']
BaseRoadmap(primaryIndustry) ==
    IF primaryIndustry \in DOMAIN industryRoadmaps
    THEN industryRoadmaps[primaryIndustry]
    ELSE industryRoadmaps["general"]

\* a faulty variant of lines 390-404: the certification step before the
\* leadership step
CertificationFirst(primaryIndustry, s) ==
    BaseRoadmap(primaryIndustry)
 \o (IF s.skills > 60
     THEN <<Step("Pursue Professional Certifications", "milestone")>> ELSE <<>>)
 \o (IF s.experience > 70
     THEN <<Step("Develop Leadership and Management Skills", "learn")>> ELSE <<>>)
 \o <<Step("Continuous Professional Development", "learn")>>

RoadmapFor(primaryIndustry, s) ==
    BaseRoadmap(primaryIndustry)
 \o (IF s.experience > 70
     THEN <<Step("Develop Leadership and Management Skills", "learn")>> ELSE <<>>)
 \o (IF s.skills > 60
     THEN <<Step("Pursue Professional Certifications", "milestone")>> ELSE <<>>)
 \o <<Step("Continuous Professional Development", "learn")>>

\* a faulty variant of line 413: roadmap.slice(0, 5)
RoadmapCutAtFive(text, s) == Slice(RoadmapFor(RoadmapIndustry(text), s), 5)

GenerateRoadmap(text, s) == Slice(RoadmapFor(RoadmapIndustry(text), s), 6)

(***************************************************************************)
(* classifyExperienceLevel                                                 *)
(***************************************************************************)
\* text.match(yearsPattern), the matches of all lines in order
YearsMatches(text) == Flatten([i \in 1..Len(text) |-> LineYearsMatches[text[i]]])

RECURSIVE MaxOf(_)
\* Math.max(...values) of a non-empty list
MaxOf(q) == IF Len(q) = 1 THEN q[1] ELSE Max(q[1], MaxOf(Tail(q)))

\* matches ? Math.max(...matches.map(match => parseInt(match))) : 0
YearsFrom(matches) ==
    IF Len(matches) > 0
    THEN MaxOf([i \in 1..Len(matches) |-> ParseInt(matches[i])])
    ELSE 0

YearsOf(text) == YearsFrom(YearsMatches(text))

\* a faulty variant of the thresholds: strict comparisons
LevelAbove(years, experienceScore) ==
    IF years > 5 \/ experienceScore > 80 THEN "Senior Level"
    ELSE IF years > 2 \/ experienceScore > 60 THEN "Mid Level"
    ELSE "Entry Level"

LevelOf(years, experienceScore) ==
    IF years >= 5 \/ experienceScore >= 80 THEN "Senior Level"
    ELSE IF years >= 2 \/ experienceScore >= 60 THEN "Mid Level"
    ELSE "Entry Level"

ClassifyExperienceLevel(experienceScore, text) == LevelOf(YearsOf(text), experienceScore)

(***************************************************************************)
(* estimateSalary                                                          *)
(***************************************************************************)
DigitString(d) == Char(DigitChars, d + 1)

\* String(n) of a non-negative integer
RECURSIVE DecimalString(_)
DecimalString(n) ==
    IF n < 10 THEN DigitString(n) ELSE DecimalString(n \div 10) \o DigitString(n % 10)

Pad3(n) == DigitString(n \div 100) \o DigitString((n \div 10) % 10) \o DigitString(n % 10)

\* Number.prototype.toLocaleString() of a non-negative integer, in the en-US
\* locale: groups of three digits separated by commas
RECURSIVE ToLocaleString(_)
ToLocaleString(n) ==
    IF n < 1000 THEN DecimalString(n)
    ELSE ToLocaleString(n \div 1000) \o "," \o Pad3(n % 1000)

\* lines 655-659
baseRanges ==
    [level \in {"Entry Level", "Mid Level", "Senior Level"} |->
        CASE level = "Entry Level"  -> [min |-> 45000,  max |-> 75000]
          [] level = "Mid Level"    -> [min |-> 75000,  max |-> 125000]
          [] level = "Senior Level" -> [min |-> 125000, max |-> 185000]]

\* line 661: baseRanges[experienceLevel] || baseRanges['Entry Level']
RangeOf(level) ==
    IF level \in DOMAIN baseRanges THEN baseRanges[level] ELSE baseRanges["Entry Level"]

\* a faulty variant of line 662: the multiplier without Math.min
UncappedMultiplier(score) == FloatAdd(FloatDiv(score, 100), PointTwo)

\* line 662: Math.min(1, score / 100 + 0.2)
Multiplier(score) == MathMin(One, FloatAdd(FloatDiv(score, 100), PointTwo))

\* Math.round(bound * multiplier)
ScaledBound(bound, score) == MathRound(WideMul(bound, Coarse(Multiplier(score))))

\* lines 664-667
SalaryFor(range, score, level) ==
    [range |-> "$" \o ToLocaleString(ScaledBound(range.min, score))
                  \o " - $" \o ToLocaleString(ScaledBound(range.max, score)),
     justification |-> "Based on " \o ToLowerCase(level)
                  \o " experience and comprehensive skill assessment score of "
                  \o DecimalString(score)]

EstimateSalary(score, level) == SalaryFor(RangeOf(level), score, level)

(***************************************************************************)
(* detectPrimarySkills                                                     *)
(***************************************************************************)
\* every keyword of every skill category, in the order the loops visit them
SkillKeywordList == Flatten([c \in 1..Len(skillCategories) |-> skillCategories[c].keywords])

\* tokens.filter(token => token matches keyword).length
SkillMatches(tokens, keyword) == CountIf(tokens, LAMBDA t : keyword \in KeywordMatches[t])

\* the positions of keyword among the entries of skillCounts
KnownAt(skillCounts, keyword) ==
    {i \in 1..Len(skillCounts) : skillCounts[i].skill = keyword}

RECURSIVE SkillCountsFrom(_, _, _)
RECURSIVE CountSkill(_, _, _, _, _)
\* skillCounts: the entries [skill, count] in the order of their insertion
SkillCountsFrom(tokens, k, skillCounts) ==
    IF k > Len(SkillKeywordList) THEN skillCounts
    ELSE CountSkill(tokens, k, skillCounts, SkillKeywordList[k],
                    SkillMatches(tokens, SkillKeywordList[k]))

\* if (matches > 0) skillCounts[keyword] = (skillCounts[keyword] || 0) + matches
CountSkill(tokens, k, skillCounts, keyword, matches) ==
    IF matches = 0 THEN SkillCountsFrom(tokens, k + 1, skillCounts)
    ELSE IF KnownAt(skillCounts, keyword) = {}
    THEN SkillCountsFrom(tokens, k + 1,
             Append(skillCounts, [skill |-> keyword, count |-> matches]))
    ELSE SkillCountsFrom(tokens, k + 1,
             [skillCounts EXCEPT
                 ![CHOOSE i \in KnownAt(skillCounts, keyword) : TRUE].count = @ + matches])

RECURSIVE InsertByCount(_, _)
\* e placed after every entry whose count is at least e's
InsertByCount(sorted, e) ==
    IF sorted = <<>> THEN <<e>>
    ELSE IF Head(sorted).count >= e.count THEN <<Head(sorted)>> \o InsertByCount(Tail(sorted), e)
    ELSE <<e>> \o sorted

RECURSIVE SortByCountFrom(_, _, _)
SortByCountFrom(entries, i, sorted) ==
    IF i > Len(entries) THEN sorted
    ELSE SortByCountFrom(entries, i + 1, InsertByCount(sorted, entries[i]))

\* entries.sort(([,a], [,b]) => b - a): descending by count, stable
SortByCount(entries) == SortByCountFrom(entries, 1, <<>>)

\* .map(([skill]) => skill)
SkillNames(entries) == [i \in 1..Len(entries) |-> entries[i].skill]

\* a faulty variant of detectPrimarySkills: no sort
PrimarySkillsUnsorted(text) ==
    SkillNames(Slice(SkillCountsFrom(PreprocessText(text), 1, <<>>), 8))

\* lines 491-513
DetectPrimarySkills(text) ==
    SkillNames(Slice(SortByCount(SkillCountsFrom(PreprocessText(text), 1, <<>>)), 8))

(***************************************************************************)
(* suggestRoles                                                            *)
(***************************************************************************)
industryRoles ==
    [technology |-> <<"Software Developer", "IT Specialist", "Technical Consultant", "Systems Analyst", "Web Developer">>,
     business |-> <<"Business Analyst", "Marketing Manager", "Sales Executive", "Operations Manager", "Project Coordinator">>,
     healthcare |-> <<"Healthcare Professional", "Medical Assistant", "Clinical Specialist", "Healthcare Administrator", "Patient Care Coordinator">>,
     education |-> <<"Educator", "Training Specialist", "Instructional Designer", "Academic Advisor", "Learning Consultant">>,
     engineering |-> <<"Engineer", "Technical Specialist", "Design Engineer", "Project Engineer", "Technical Consultant">>,
     creative |-> <<"Creative Professional", "Content Creator", "Media Specialist", "Design Consultant", "Creative Director">>,
     service |-> <<"Customer Service Professional", "Hospitality Manager", "Service Coordinator", "Client Relations Specialist", "Operations Associate">>,
     legal |-> <<"Legal Professional", "Paralegal", "Legal Assistant", "Compliance Specialist", "Legal Consultant">>,
     government |-> <<"Public Service Professional", "Administrative Officer", "Government Specialist", "Public Policy Assistant", "Civil Service Professional">>,
     finance |-> <<"Financial Professional", "Accounting Specialist", "Financial Analyst", "Banking Professional", "Investment Associate">>,
     general |-> <<"Professional", "Specialist", "Coordinator", "Associate", "Consultant">>]

experienceRoles ==
    [senior |-> <<"Senior", "Lead", "Manager", "Director", "Head">>,
     mid    |-> <<"Specialist", "Coordinator", "Analyst", "Professional", "Consultant">>,
     entry  |-> <<"Associate", "Assistant", "Junior", "Trainee", "Coordinator">>]

\* the industry suggestRoles detects in the text it reads
RolesIndustry(readText) == DetectIndustry(PreprocessText(readText), rolesIndustryIndicators)

\* a faulty variant of the seniority of suggestRoles: senior from 40 on
SeniorFromForty(s) == IF s.experience >= 40 THEN "senior" ELSE "entry"

\* lines 621-622
RoleSeniority(s) ==
    IF s.experience >= 70 THEN "senior" ELSE IF s.experience >= 40 THEN "mid" ELSE "entry"

\* a faulty variant of [...new Set(roles)]: the duplicates kept
KeepDuplicates(q, seen) == q

RECURSIVE Dedup(_, _)
\* [...new Set(roles)]: the first occurrence of every element, in order
Dedup(q, seen) ==
    IF q = <<>> THEN <<>>
    ELSE IF Head(q) \in seen THEN Dedup(Tail(q), seen)
    ELSE <<Head(q)>> \o Dedup(Tail(q), seen \cup {Head(q)})

\* industryRoles[primaryIndustry] || industryRoles['general']
BaseRoles(primaryIndustry) ==
    IF primaryIndustry \in DOMAIN industryRoles
    THEN industryRoles[primaryIndustry]
    ELSE industryRoles["general"]

\* the forEach over baseRoles
SpecificRoles(baseRoles, expPrefixes, experienceLevel) ==
    [index \in 1..Min(3, Len(baseRoles)) |->
        IF experienceLevel # "entry" /\ index <= Len(expPrefixes)
        THEN expPrefixes[index] \o " " \o baseRoles[index]
        ELSE baseRoles[index]]

RolesFor(primaryIndustry, experienceLevel) ==
    SpecificRoles(BaseRoles(primaryIndustry), experienceRoles[experienceLevel],
                  experienceLevel)
        \o <<"Professional", "Specialist">>

\* suggestRoles(sections, primarySkills), readText being this.lastResumeText || ''
SuggestRoles(s, readText) ==
    Slice(Dedup(RolesFor(RolesIndustry(readText), RoleSeniority(s)), {}), 8)

(***************************************************************************)
(* analyzeResume                                                           *)
(***************************************************************************)
\* the instance field lastResumeText: undefined until the first call
Undefined == [defined |-> FALSE, value |-> <<>>]
Stored(text) == [defined |-> TRUE, value |-> text]

\* this.lastResumeText || ''
LastTextOrEmpty(field) == IF field.defined THEN field.value ELSE <<>>

MinLength == 100

\* a faulty variant of the validation: resumeText.trim().length <= 100
TooShortAtMinimum(text) == RawText(text) = "" \/ TrimmedLength(RawText(text)) <= MinLength

\* !resumeText || resumeText.trim().length < 100
TooShort(text) == RawText(text) = "" \/ TrimmedLength(RawText(text)) < MinLength

Error(message) == [name |-> "Error", message |-> message]

\* a faulty variant of the catch block: throw error
RethrownAsCaught(error) == error

\* the catch block: throw new Error('Failed to analyze resume: ' + error.message)
Rethrown(error) == Error("Failed to analyze resume: " \o error.message)

Rejected(error) == [status |-> "rejected", error |-> error]
Fulfilled(report) == [status |-> "fulfilled", report |-> report]
Pending == [status |-> "pending"]

\* Math.round of a score that is already an integer
RoundScore(n) == n

RECURSIVE Join(_, _)
\* list.join(separator)
Join(list, separator) ==
    IF list = <<>> THEN ""
    ELSE IF Len(list) = 1 THEN list[1]
    ELSE list[1] \o separator \o Join(Tail(list), separator)

\* if (condition) list.push(sentence)
Pushed(condition, sentence) == IF condition THEN <<sentence>> ELSE <<>>

\* list.length > 0 ? list : [fallback]
OrFallback(list, fallback) == IF Len(list) > 0 THEN list ELSE <<fallback>>

\* lines 525-543: the pushes of identifyStrengths
StrengthsPushed(s, primarySkills) ==
    Pushed(s.skills >= 80,
           "Strong technical skills including " \o Join(Slice(primarySkills, 3), ", "))
    \o Pushed(s.experience >= 75,
              "Extensive professional experience with clear career progression")
    \o Pushed(s.achievements >= 70,
              "Quantified achievements demonstrating measurable impact")
    \o Pushed(s.formatting >= 80,
              "Well-structured and professionally formatted resume")
    \o Pushed(s.projects >= 60,
              "Solid project portfolio and hands-on experience")

\* lines 522-546
IdentifyStrengths(s, primarySkills) ==
    OrFallback(StrengthsPushed(s, primarySkills),
               "Shows potential for development and learning")

\* lines 551-565: the pushes of identifyWeaknesses
WeaknessesPushed(s) ==
    Pushed(s.skills < 50,
           "Technical skills section needs more detail and specificity")
    \o Pushed(s.experience < 50,
              "Limited work experience documentation")
    \o Pushed(s.achievements < 40,
              "Could include more quantified results and achievements")
    \o Pushed(s.formatting < 50,
              "Formatting and structure could be improved for better readability")

\* a faulty variant of identifyWeaknesses: no fallback
WeaknessesMayBeEmpty(s) == WeaknessesPushed(s)

\* lines 548-568
IdentifyWeaknesses(s) ==
    OrFallback(WeaknessesPushed(s), "Minor improvements needed for optimal impact")

\* the report assembled from the section scores s; field is the instance field
\* as suggestRoles finds it
ReportFrom(text, field, s) ==
    [scores |-> [overall      |-> OverallScore(s),
                 skills       |-> RoundScore(s.skills),
                 experience   |-> RoundScore(s.experience),
                 education    |-> RoundScore(s.education),
                 projects     |-> RoundScore(s.projects),
                 achievements |-> RoundScore(s.achievements),
                 formatting   |-> RoundScore(s.formatting)],
     strengths       |-> IdentifyStrengths(s, DetectPrimarySkills(text)),
     weaknesses      |-> IdentifyWeaknesses(s),
     experienceLevel |-> ClassifyExperienceLevel(s.experience, text),
     primarySkills   |-> DetectPrimarySkills(text),
     detailedRecommendations |-> GenerateRecommendations(text, s),
     roadmap         |-> GenerateRoadmap(text, s),
     targetRoles     |-> SuggestRoles(s, LastTextOrEmpty(field)),
     salaryExpectation |-> EstimateSalary(OverallScore(s),
                                          ClassifyExperienceLevel(s.experience, text))]

\* the report of a call that passes the validation
Report(text, field) == ReportFrom(text, field, ScoreSections(text))

\* a faulty variant of line 419: this.lastResumeText = this.lastResumeText || resumeText
KeepFirstText(field, text) == IF field.defined THEN field ELSE Stored(text)

\* line 419: this.lastResumeText = resumeText
StoreText(field, text) == Stored(text)

TooShortError == Error("Resume content is too short or empty")

\* the promise analyzeResume(text) returns, field being this.lastResumeText after
\* line 419
AnalyzeResumeOutcome(text, field) ==
    IF TooShort(text)
    THEN Rejected(Rethrown(TooShortError))
    ELSE Fulfilled(Report(text, field))

NoSections == [n \in SectionNames |-> 0]
NoLevel    == "none"
NoSalary   == [range |-> "", justification |-> ""]
NoResult   == <<>>
NoMlAnalysis == [experienceLevel |-> "none", range |-> [min |-> 0, max |-> 0]]
NoIndustry == [roadmap |-> "none", roles |-> "none"]
NoServer   == [step |-> "off"]

(***************************************************************************)
(* SpecOverall: the weighted sum of analyzeResume over section scores,     *)
(* both arbitrary small ones and the ones the section scorers produce from *)
(* small mention counts.                                                   *)
(***************************************************************************)
MaxSampleScore == 6
MaxMentions == 2

Counts == 0..MaxMentions

SkillsValues       == {SkillsFormula(a, b) : a \in Counts, b \in Counts}
ExperienceValues   == {ExperienceFormula(a, b) : a \in Counts, b \in Counts}
EducationValues    == {EducationFormula(a) : a \in Counts}
ProjectsValues     == {ProjectsFormula(a) : a \in Counts}
AchievementsValues == {AchievementsFormula(a, b) : a \in Counts, b \in Counts}
\* counts on both sides of each threshold of scoreFormatting
FormattingValues   ==
    {FormattingFormula(n, b, c, k) : n \in {10, 11}, b \in {5, 6}, c \in {3, 4}, k \in {20, 21}}

\* section scores the scorers produce
Producible(s) ==
    /\ s.skills \in SkillsValues
    /\ s.experience \in ExperienceValues
    /\ s.education \in EducationValues
    /\ s.projects \in ProjectsValues
    /\ s.achievements \in AchievementsValues
    /\ s.formatting \in FormattingValues

IdleInstance ==
    /\ resumeText = <<>>
    /\ argKind = "string"
    /\ outcome = Pending
    /\ industry = NoIndustry
    /\ experienceTier = NoLevel
    /\ salaryExpectation = NoSalary
    /\ mlAnalysis = NoMlAnalysis
    /\ returned = NoResult
    /\ lastResumeText = Undefined
    /\ callers = <<>>
    /\ running = 0
    /\ history = <<>>
    /\ server = NoServer

InitOverall ==
    /\ \/ sections \in [SectionNames -> 0..MaxSampleScore]
       \/ sections \in [skills : SkillsValues, experience : ExperienceValues,
                        education : EducationValues, projects : ProjectsValues,
                        achievements : AchievementsValues, formatting : FormattingValues]
    /\ overall = 0
    /\ pc = "call"
    /\ IdleInstance

\* lines 433-440
ComputeOverall ==
    /\ pc = "call"
    /\ pc' = "return"
    /\ overall' = OverallScore(sections)
    /\ UNCHANGED <<sections, resumeText, argKind, outcome, industry, experienceTier,
                   salaryExpectation, returned, mlAnalysis, lastResumeText, callers, running, history, server>>

NextOverall == ComputeOverall

SpecOverall == InitOverall /\ [][NextOverall]_vars

(***************************************************************************)
(* SpecSalary: one call estimateSalary(overallScore, experienceLevel), for *)
(* every overall score and every label classifyExperienceLevel returns.    *)
(***************************************************************************)
LevelLabels == {"Entry Level", "Mid Level", "Senior Level"}

InitSalary ==
    /\ overall \in 0..MaxScore
    /\ experienceTier \in LevelLabels
    /\ salaryExpectation = NoSalary
    /\ mlAnalysis = NoMlAnalysis
    /\ returned = NoResult
    /\ sections = NoSections
    /\ pc = "call"
    /\ resumeText = <<>>
    /\ argKind = "string"
    /\ outcome = Pending
    /\ industry = NoIndustry
    /\ lastResumeText = Undefined
    /\ callers = <<>>
    /\ running = 0
    /\ history = <<>>
    /\ server = NoServer

\* lines 654-668
CallEstimateSalary ==
    /\ pc = "call"
    /\ salaryExpectation' = EstimateSalary(overall, experienceTier)
    /\ pc' = "return"
    /\ UNCHANGED <<sections, overall, resumeText, argKind, outcome, industry, experienceTier,
                   returned, mlAnalysis, lastResumeText, callers, running, history, server>>

NextSalary == CallEstimateSalary

SpecSalary == InitSalary /\ [][NextSalary]_vars

(***************************************************************************)
(* SpecText: one call analyzeResume(resumeText) on a fresh analyzer, for   *)
(* every text of at most MaxLines lines.                                   *)
(***************************************************************************)
MaxLines == 2

Texts == UNION {[1..n -> Lines] : n \in 0..MaxLines}

InitText ==
    /\ resumeText \in Texts
    /\ argKind = "string"
    /\ pc = "call"
    /\ sections = NoSections
    /\ overall = 0
    /\ outcome = Pending
    /\ industry = NoIndustry
    /\ experienceTier = NoLevel
    /\ salaryExpectation = NoSalary
    /\ mlAnalysis = NoMlAnalysis
    /\ returned = NoResult
    /\ lastResumeText = Undefined
    /\ callers = <<>>
    /\ running = 0
    /\ history = <<>>
    /\ server = NoServer

\* line 419, and into the try block
EnterAnalyzeResume ==
    /\ pc = "call"
    /\ lastResumeText' = StoreText(lastResumeText, resumeText)
    /\ pc' = "try"
    /\ UNCHANGED <<sections, overall, resumeText, argKind, outcome, industry,
                   experienceTier, salaryExpectation, returned, mlAnalysis, callers, running, history, server>>

\* lines 422-424: the validation throws inside the try block
ThrowTooShort ==
    /\ pc = "try"
    /\ argKind = "string"
    /\ TooShort(resumeText)
    /\ outcome' = [status |-> "thrown", error |-> TooShortError]
    /\ pc' = "catch"
    /\ UNCHANGED <<sections, overall, resumeText, argKind, industry, experienceTier,
                   salaryExpectation, returned, mlAnalysis, lastResumeText, callers, running, history, server>>

\* lines 475-478: the catch block rethrows what the try block threw
CatchAndRethrow ==
    /\ pc = "catch"
    /\ outcome' = Rejected(Rethrown(outcome.error))
    /\ pc' = "done"
    /\ UNCHANGED <<sections, overall, resumeText, argKind, industry, experienceTier,
                   salaryExpectation, returned, mlAnalysis, lastResumeText, callers, running, history, server>>

\* lines 426-473: the analysis of a text that passed the validation
Analyze ==
    /\ pc = "try"
    /\ argKind = "string"
    /\ ~TooShort(resumeText)
    /\ sections' = ScoreSections(resumeText)
    /\ overall' = OverallScore(sections')
    /\ industry' = [roadmap |-> RoadmapIndustry(resumeText),
                           roles   |-> RolesIndustry(LastTextOrEmpty(lastResumeText))]
    /\ experienceTier' = ClassifyExperienceLevel(sections'.experience, resumeText)
    /\ salaryExpectation' = EstimateSalary(overall', experienceTier')
    /\ outcome' = Fulfilled(Report(resumeText, lastResumeText))
    /\ pc' = "done"
    /\ UNCHANGED <<resumeText, argKind, returned, mlAnalysis, lastResumeText, callers, running, history, server>>

NextText == EnterAnalyzeResume \/ ThrowTooShort \/ CatchAndRethrow \/ Analyze

SpecText == InitText /\ [][NextText]_vars

(***************************************************************************)
(* SpecArgs: the call of SpecText, and the call with a number as argument, *)
(* analyzeResume(42); resumeText is then the empty text.                   *)
(***************************************************************************)
InitArgs ==
    /\ \/ argKind = "string" /\ resumeText \in Texts
       \/ argKind = "number" /\ resumeText = <<>>
    /\ pc = "call"
    /\ sections = NoSections
    /\ overall = 0
    /\ outcome = Pending
    /\ industry = NoIndustry
    /\ experienceTier = NoLevel
    /\ salaryExpectation = NoSalary
    /\ mlAnalysis = NoMlAnalysis
    /\ returned = NoResult
    /\ lastResumeText = Undefined
    /\ callers = <<>>
    /\ running = 0
    /\ history = <<>>
    /\ server = NoServer

\* a number has no method trim
NotAFunction == [name |-> "TypeError", message |-> "resumeText.trim is not a function"]

\* line 422: a truthy argument that is not a string; resumeText.trim() throws
\* inside the try block
ThrowTypeError ==
    /\ pc = "try"
    /\ argKind = "number"
    /\ outcome' = [status |-> "thrown", error |-> NotAFunction]
    /\ pc' = "catch"
    /\ UNCHANGED <<sections, overall, resumeText, argKind, industry, experienceTier,
                   salaryExpectation, returned, mlAnalysis, lastResumeText, callers, running, history, server>>

NextArgs == NextText \/ ThrowTypeError

SpecArgs == InitArgs /\ [][NextArgs]_vars

(***************************************************************************)
(* SpecLevels: the call of SpecText and, on the same text, a call of the   *)
(* other analyzer, MLResumeAnalyzer.analyzeResume (ml-resume-analyzer.js), *)
(* from its experience score to the band estimateSalary looks up.  Its     *)
(* tokens come from the tokenizer and the stemmer of the natural package,  *)
(* so the number of experience mentions is any number up to MaxMlMentions. *)
(***************************************************************************)
MaxMlMentions == 7

\* ml-resume-analyzer.js 146-154
MlExperienceFormula(experienceMentions) == Min(MaxScore, experienceMentions * 15)

\* a faulty variant of ml-resume-analyzer.js 353-355: the labels of the other analyzer
MlLevelWithLevelSuffix(years, experienceScore) ==
    IF years >= 5 \/ experienceScore >= 80 THEN "Senior Level"
    ELSE IF years >= 2 \/ experienceScore >= 60 THEN "Mid Level"
    ELSE "Entry Level"

\* ml-resume-analyzer.js 353-355
MlLevelOf(years, experienceScore) ==
    IF years >= 5 \/ experienceScore >= 80 THEN "Senior"
    ELSE IF years >= 2 \/ experienceScore >= 60 THEN "Mid-level"
    ELSE "Entry-level"

\* ml-resume-analyzer.js 348-356
MlClassifyExperienceLevel(experienceScore, text) == MlLevelOf(YearsOf(text), experienceScore)

\* ml-resume-analyzer.js 392-396
mlBaseRanges ==
    [level \in {"Entry-level", "Mid-level", "Senior"} |->
        CASE level = "Entry-level" -> [min |-> 40000,  max |-> 70000]
          [] level = "Mid-level"   -> [min |-> 70000,  max |-> 120000]
          [] level = "Senior"      -> [min |-> 120000, max |-> 180000]]

\* ml-resume-analyzer.js 398: baseRanges[experienceLevel] || baseRanges['Entry-level']
MlRangeOf(level) ==
    IF level \in DOMAIN mlBaseRanges THEN mlBaseRanges[level] ELSE mlBaseRanges["Entry-level"]

\* ml-resume-analyzer.js 321 and 398
MlAnalysis(level) == [experienceLevel |-> level, range |-> MlRangeOf(level)]

\* ml-resume-analyzer.js 297-346
MlAnalyzeResume ==
    /\ mlAnalysis = NoMlAnalysis
    /\ \E experienceMentions \in 0..MaxMlMentions :
           mlAnalysis' = MlAnalysis(MlClassifyExperienceLevel(
                                       MlExperienceFormula(experienceMentions), resumeText))
    /\ UNCHANGED <<pc, sections, overall, resumeText, argKind, outcome, industry, experienceTier,
                   salaryExpectation, returned, lastResumeText, callers, running, history, server>>

NextLevels == NextText \/ MlAnalyzeResume

SpecLevels == InitText /\ [][NextLevels]_vars

(***************************************************************************)
(* SpecMethods: one call of generateRoadmap, of generateRecommendations or *)
(* of suggestRoles on its own, for sample texts and for section scores on  *)
(* both sides of every threshold the three methods compare them with.      *)
(* Every sample score is a value its scorer's formula yields.  The field   *)
(* lastResumeText is unset or holds the text, as after line 419.           *)
(***************************************************************************)
SampleTexts ==
    {<<>>} \cup {<<l>> : l \in Lines} \cup {<<SkillsLine, l>> : l \in Lines}

SampleSections ==
    [skills : {48, 50, 60, 62}, experience : {35, 40, 55, 60, 65, 70, 75},
     education : {0}, projects : {0}, achievements : {35, 40}, formatting : {45, 50}]

InitMethods ==
    /\ resumeText \in SampleTexts
    /\ argKind = "string"
    /\ sections \in SampleSections
    /\ lastResumeText \in {Undefined, Stored(resumeText)}
    /\ returned = NoResult
    /\ pc = "call"
    /\ overall = 0
    /\ outcome = Pending
    /\ industry = NoIndustry
    /\ experienceTier = NoLevel
    /\ salaryExpectation = NoSalary
    /\ mlAnalysis = NoMlAnalysis
    /\ callers = <<>>
    /\ running = 0
    /\ history = <<>>
    /\ server = NoServer

\* what a method called on its own leaves alone
MethodFrame ==
    UNCHANGED <<sections, overall, resumeText, argKind, outcome, industry, experienceTier,
                salaryExpectation, mlAnalysis, lastResumeText, callers, running, history, server>>

\* lines 291-414
CallGenerateRoadmap ==
    /\ pc = "call"
    /\ returned' = GenerateRoadmap(resumeText, sections)
    /\ pc' = "generateRoadmap"
    /\ MethodFrame

\* lines 211-288
CallGenerateRecommendations ==
    /\ pc = "call"
    /\ returned' = GenerateRecommendations(resumeText, sections)
    /\ pc' = "generateRecommendations"
    /\ MethodFrame

\* lines 570-652
CallSuggestRoles ==
    /\ pc = "call"
    /\ returned' = SuggestRoles(sections, LastTextOrEmpty(lastResumeText))
    /\ pc' = "suggestRoles"
    /\ MethodFrame

NextMethods == CallGenerateRoadmap \/ CallGenerateRecommendations \/ CallSuggestRoles

SpecMethods == InitMethods /\ [][NextMethods]_vars

(***************************************************************************)
(* SpecScorers: one call of extractFeatures, of scoreSections or of        *)
(* detectPrimarySkills on its own, for every text of at most two lines and *)
(* for long texts, two lines taking turns, with 10 and with 11 newlines.   *)
(***************************************************************************)
LongLengths == {11, 12}

Alternating(a, b, n) == [i \in 1..n |-> IF i % 2 = 1 THEN a ELSE b]

ScorerTexts ==
    {<<>>} \cup {<<a>> : a \in Lines} \cup {<<a, b>> : a \in Lines, b \in Lines}
        \cup {Alternating(a, b, n) : a \in Lines, b \in Lines, n \in LongLengths}

InitScorers ==
    /\ resumeText \in ScorerTexts
    /\ argKind = "string"
    /\ sections = NoSections
    /\ lastResumeText = Undefined
    /\ returned = NoResult
    /\ pc = "call"
    /\ overall = 0
    /\ outcome = Pending
    /\ industry = NoIndustry
    /\ experienceTier = NoLevel
    /\ salaryExpectation = NoSalary
    /\ mlAnalysis = NoMlAnalysis
    /\ callers = <<>>
    /\ running = 0
    /\ history = <<>>
    /\ server = NoServer

\* lines 49-115
CallExtractFeatures ==
    /\ pc = "call"
    /\ returned' = ExtractFeatures(resumeText)
    /\ pc' = "extractFeatures"
    /\ MethodFrame

\* lines 118-129
CallScoreSections ==
    /\ pc = "call"
    /\ returned' = ScoreSections(resumeText)
    /\ pc' = "scoreSections"
    /\ MethodFrame

\* lines 491-513
CallDetectPrimarySkills ==
    /\ pc = "call"
    /\ returned' = DetectPrimarySkills(resumeText)
    /\ pc' = "detectPrimarySkills"
    /\ MethodFrame

NextScorers == CallExtractFeatures \/ CallScoreSections \/ CallDetectPrimarySkills

SpecScorers == InitScorers /\ [][NextScorers]_vars

(***************************************************************************)
(* SpecReports: the call of SpecText, for the texts of SpecScorers: the    *)
(* long ones reach the section scores that short texts do not.             *)
(***************************************************************************)
InitReports ==
    /\ resumeText \in ScorerTexts
    /\ argKind = "string"
    /\ pc = "call"
    /\ sections = NoSections
    /\ overall = 0
    /\ outcome = Pending
    /\ industry = NoIndustry
    /\ experienceTier = NoLevel
    /\ salaryExpectation = NoSalary
    /\ mlAnalysis = NoMlAnalysis
    /\ returned = NoResult
    /\ lastResumeText = Undefined
    /\ callers = <<>>
    /\ running = 0
    /\ history = <<>>
    /\ server = NoServer

SpecReports == InitReports /\ [][NextText]_vars

(***************************************************************************)
(* Spec: one analyzer instance shared by async callers on the one          *)
(* JavaScript thread: /analyze handlers (server.js) and direct callers     *)
(* (the test drivers).  A caller that has started to run keeps the thread  *)
(* until it reaches an await.                                              *)
(***************************************************************************)
NumCallers == 2
MaxHistory == 3

Callers == 1..NumCallers

TechText   == <<TechLine, SkillsLine>>
NurseText  == <<NurseLine, WorkLine>>
ShortText  == <<ContactLine>>

RequestTexts == {TechText, NurseText, ShortText}

\* the values this.lastResumeText takes
InstanceFields == {Undefined} \cup {Stored(t) : t \in RequestTexts}

\* the validation and analyzeResume, evaluated once for every text of a caller
ContentTooShort == [t \in RequestTexts |-> TooShort(t)]
AnalysisOutcomes ==
    [t \in RequestTexts |-> [field \in InstanceFields |-> AnalyzeResumeOutcome(t, field)]]

\* a faulty variant: analyzeResume awaits between line 419 and suggestRoles
AwaitsWithOneInAnalyzeResume == {"reading", "stored", "awaiting"}

\* the positions at which a caller is suspended in an await:
\* "reading" in the handler's await fs.readFile (server.js 146), "awaiting" in
\* the caller's await of analyzeResume's promise (server.js 161).  analyzeResume
\* itself holds no await: "stored", after line 419, is not one.
YieldPoints == {"reading", "awaiting"}

\* who holds the thread once caller c has moved to position p
Holder(c, p) == IF p \in YieldPoints THEN 0 ELSE c

CanRun(c) == running \in {0, c}

NoResponse == [status |-> "none"]

IdleCaller ==
    [pc |-> "idle", kind |-> "none", text |-> <<>>, readText |-> <<>>,
     outcome |-> Pending, response |-> NoResponse]

Init ==
    /\ callers = [c \in Callers |-> IdleCaller]
    /\ running = 0
    /\ history = <<>>
    /\ server = NoServer
    /\ lastResumeText = Undefined
    /\ pc = "idle"
    /\ sections = NoSections
    /\ overall = 0
    /\ resumeText = <<>>
    /\ argKind = "string"
    /\ outcome = Pending
    /\ industry = NoIndustry
    /\ experienceTier = NoLevel
    /\ salaryExpectation = NoSalary
    /\ mlAnalysis = NoMlAnalysis
    /\ returned = NoResult

single == <<pc, sections, overall, resumeText, argKind, outcome, industry,
            experienceTier, salaryExpectation, returned, mlAnalysis, server>>

\* the latest MaxHistory completed calls
Remember(h, call) ==
    IF Len(h) < MaxHistory THEN Append(h, call) ELSE Append(Tail(h), call)

\* server.js 99-147: a request for an uploaded file whose content is text; the
\* handler runs up to await fs.readFile
Receive(c, text) ==
    /\ callers[c].pc = "idle"
    /\ CanRun(c)
    /\ callers' = [callers EXCEPT ![c] =
                      [IdleCaller EXCEPT !.pc = "reading", !.kind = "handler", !.text = text]]
    /\ running' = Holder(c, "reading")
    /\ UNCHANGED <<lastResumeText, history, single>>

\* server.js 150-154: the handler answers 400 to a content that is too short
RefuseShortContent(c) ==
    /\ callers[c].pc = "reading"
    /\ CanRun(c)
    /\ ContentTooShort[callers[c].text]
    /\ callers' = [callers EXCEPT ![c] =
                      [IdleCaller EXCEPT !.response =
                          [status |-> 400,
                           error |-> "Resume content is too short or empty. Please upload a complete resume."]]]
    /\ running' = 0
    /\ UNCHANGED <<lastResumeText, history, single>>

\* server.js 156-161: the handler calls mlAnalyzer.analyzeResume(fileContent),
\* which runs line 419
CallFromHandler(c) ==
    /\ callers[c].pc = "reading"
    /\ CanRun(c)
    /\ ~ContentTooShort[callers[c].text]
    /\ lastResumeText' = StoreText(lastResumeText, callers[c].text)
    /\ callers' = [callers EXCEPT ![c].pc = "stored"]
    /\ running' = Holder(c, "stored")
    /\ UNCHANGED <<history, single>>

\* a caller that holds the analyzer itself, as the test drivers do, calls
\* analyzer.analyzeResume(text), which runs line 419
CallDirectly(c, text) ==
    /\ callers[c].pc = "idle"
    /\ CanRun(c)
    /\ lastResumeText' = StoreText(lastResumeText, text)
    /\ callers' = [callers EXCEPT ![c] =
                      [IdleCaller EXCEPT !.pc = "stored", !.kind = "direct", !.text = text]]
    /\ running' = Holder(c, "stored")
    /\ UNCHANGED <<history, single>>

\* caller c awaits the promise analyzeResume returned; readText is the text
\* suggestRoles read, if the call came that far
Return(c, result) ==
    /\ callers' = [callers EXCEPT
                     ![c].pc = "awaiting",
                     ![c].outcome = result,
                     ![c].readText = IF result.status = "fulfilled"
                                     THEN LastTextOrEmpty(lastResumeText)
                                     ELSE <<>>]
    /\ history' = Remember(history, [text |-> callers[c].text, outcome |-> result])

\* lines 420-478: the rest of analyzeResume, up to the promise it returns and
\* the caller's await of it
RunAnalysis(c) ==
    /\ callers[c].pc = "stored"
    /\ CanRun(c)
    /\ Return(c, AnalysisOutcomes[callers[c].text][lastResumeText])
    /\ running' = Holder(c, "awaiting")
    /\ UNCHANGED <<lastResumeText, single>>

\* the caller resumes with the settled promise; the handler answers
\* (server.js 304, 306-309)
Settle(c) ==
    /\ callers[c].pc = "awaiting"
    /\ CanRun(c)
    /\ callers' = [callers EXCEPT ![c] =
                      [IdleCaller EXCEPT !.response =
                          IF callers[c].kind # "handler" THEN NoResponse
                          ELSE IF callers[c].outcome.status = "fulfilled"
                          THEN [status |-> 200, body |-> callers[c].outcome.report]
                          ELSE [status |-> 500,
                                error |-> "Analysis failed: " \o callers[c].outcome.error.message]]]
    /\ running' = 0
    /\ UNCHANGED <<lastResumeText, history, single>>

Proceed(c) == RefuseShortContent(c) \/ CallFromHandler(c) \/ RunAnalysis(c) \/ Settle(c)

Next ==
    \E c \in Callers :
        \/ \E text \in RequestTexts : Receive(c, text)
        \/ \E text \in RequestTexts : CallDirectly(c, text)
        \/ Proceed(c)

Spec == Init /\ [][Next]_vars

\* the event loop runs every continuation that is ready
FairSpec == Spec /\ \A c \in Callers : WF_vars(Proceed(c))

(***************************************************************************)
(* SpecServer: the routes /upload and /analyze of server.js, one /analyze  *)
(* request at a time, every await of the handler a step of its own.  The   *)
(* extraction libraries (pdf-parse, mammoth) and the generative-AI         *)
(* provider are outside the repository: a call of one of them succeeds or  *)
(* fails, either being possible for a file that exists.                    *)
(***************************************************************************)
MaxRequests == 2

EndsWith(s, suffix) ==
    Len(s) >= Len(suffix) /\ SubSeq(s, Len(s) - Len(suffix) + 1, Len(s)) = suffix

PdfType  == "application/pdf"
DocxType == "application/vnd.openxmlformats-officedocument.wordprocessingml.document"
DocType  == "application/msword"

\* the files a client uploads: multer stores file under path; text is what the
\* extraction library makes of it and raw what fs.readFile(path, 'utf8') yields
UploadFiles ==
    {[path |-> "uploads/1-tech.pdf",   mimetype |-> PdfType,     text |-> TechText,  raw |-> NurseText],
     [path |-> "uploads/2-short.docx", mimetype |-> DocxType,    text |-> ShortText, raw |-> ShortText],
     [path |-> "uploads/3-empty.doc",  mimetype |-> DocType,     text |-> <<>>,      raw |-> <<>>],
     [path |-> "uploads/4-photo.png",  mimetype |-> "image/png", text |-> <<>>,      raw |-> ShortText]}

\* a file of the server itself, which no upload has stored
ServerFile == [path |-> "server.js", mimetype |-> "text/plain", text |-> TechText, raw |-> TechText]

FileAt(path) == CHOOSE f \in UploadFiles \cup {ServerFile} : f.path = path

\* lines 42-50: multer's fileFilter
FileFilter(file) == file.mimetype \in {PdfType, DocxType, DocType}

\* the bodies of the /analyze requests: an empty string for a missing field
RequestPaths == {f.path : f \in UploadFiles \ {f \in UploadFiles : ~FileFilter(f)}}
                    \cup {ServerFile.path, "uploads/5-gone.pdf", "notes.txt", ""}

Bodies == [filename : {"", "resume"}, path : RequestPaths, useML : BOOLEAN]

\* the contents a file read can yield
ServerContents == RequestTexts \cup {<<>>}

\* a faulty variant of line 150: only an empty content is refused
OnlyEmptyRefused(text) == RawText(text) = ""

\* line 150: !fileContent || fileContent.trim().length < 100
ContentRefused(text) == RawText(text) = "" \/ TrimmedLength(RawText(text)) < 100

\* the validation of the handler and the promise of analyzeResume, evaluated
\* once for every content
Refused == [t \in ServerContents |-> ContentRefused(t)]
ServerAnalysis == [t \in ServerContents |-> AnalyzeResumeOutcome(t, Stored(t))]

\* lines 111-113
MimeTypeOf(filePath) ==
    IF EndsWith(filePath, ".pdf") THEN PdfType
    ELSE IF EndsWith(filePath, ".docx") THEN DocxType
    ELSE IF EndsWith(filePath, ".doc") THEN DocType
    ELSE "text/plain"

NoBody == [filename |-> "", path |-> "", useML |-> TRUE]

\* the server with no upload stored and no request received
IdleServer(apiKey) ==
    [apiKey       |-> apiKey,     \* process.env.GOOGLE_API_KEY is set
     disk         |-> {ServerFile.path},  \* the paths of the files that exist
     stored       |-> {},         \* the paths /upload has answered with
     uploadStatus |-> 0,          \* the status of the latest /upload response
     served       |-> 0,          \* the number of /analyze requests received
     body         |-> NoBody,     \* req.body of the /analyze request
     step         |-> "idle",     \* where the handler of the request stands
     read         |-> <<>>,       \* the paths the handler has read for it
     fileContent  |-> Undefined,  \* fileContent, once a read has succeeded
     invoked      |-> "none",     \* the analysis the handler has called for
     analysis     |-> Pending,    \* the promise of analyzeResume
     aiText       |-> "none",     \* how the text of the AI response parses
     responses    |-> <<>>]       \* the statuses of the responses sent

InitServer ==
    /\ server \in {IdleServer(apiKey) : apiKey \in BOOLEAN}
    /\ lastResumeText = Undefined
    /\ callers = <<>>
    /\ running = 0
    /\ history = <<>>
    /\ pc = "idle"
    /\ sections = NoSections
    /\ overall = 0
    /\ resumeText = <<>>
    /\ argKind = "string"
    /\ outcome = Pending
    /\ industry = NoIndustry
    /\ experienceTier = NoLevel
    /\ salaryExpectation = NoSalary
    /\ mlAnalysis = NoMlAnalysis
    /\ returned = NoResult

\* what the routes of the server leave alone
ServerFrame ==
    UNCHANGED <<pc, sections, overall, resumeText, argKind, outcome, industry, experienceTier,
                salaryExpectation, returned, mlAnalysis, callers, running, history>>

\* lines 59-62 and 313-322: a request without a file, or with a file the
\* fileFilter turns down, which the error middleware answers
UploadRefused ==
    /\ \E file \in UploadFiles : ~FileFilter(file)
    /\ server.uploadStatus # 400
    /\ server' = [server EXCEPT !.uploadStatus = 400]
    /\ UNCHANGED lastResumeText
    /\ ServerFrame

\* lines 59-96: multer has stored the file; the handler extracts its text and
\* answers with req.file.path, or the extraction fails and it answers 500
Upload(file) ==
    /\ FileFilter(file)
    /\ file.path \notin server.disk
    /\ \/ server' = [server EXCEPT !.disk = @ \cup {file.path},
                                   !.stored = @ \cup {file.path},
                                   !.uploadStatus = 200]
       \/ /\ file.mimetype = PdfType
          /\ server' = [server EXCEPT !.disk = @ \cup {file.path}, !.uploadStatus = 500]
    /\ UNCHANGED lastResumeText
    /\ ServerFrame

\* the response sent with res.status(status).json(...)
Respond(responses, status) == Append(responses, status)

\* a faulty variant of lines 306-309: the failure is logged and not answered
CatchSilently(responses) == responses

\* lines 306-309: res.status(500).json({ error: 'Analysis failed: ' + error.message })
CatchResponse(responses) == Respond(responses, 500)

\* lines 99-105: the handler starts; a body without filename or path is
\* answered 400
ReceiveAnalyze(body) ==
    /\ server.step \in {"idle", "done"}
    /\ server.served < MaxRequests
    /\ server' = [server EXCEPT
                    !.served = @ + 1,
                    !.body = body,
                    !.read = <<>>,
                    !.fileContent = Undefined,
                    !.invoked = "none",
                    !.analysis = Pending,
                    !.aiText = "none",
                    !.responses = IF body.filename = "" \/ body.path = ""
                                  THEN Respond(<<>>, 400) ELSE <<>>,
                    !.step = IF body.filename = "" \/ body.path = ""
                             THEN "done" ELSE "extract"]
    /\ UNCHANGED lastResumeText
    /\ ServerFrame

\* the first read of the file has yielded content
ReadSucceeds(content) ==
    server' = [server EXCEPT !.read = Append(@, server.body.path),
                             !.fileContent = Stored(content),
                             !.step = "validate"]

\* the first read has failed: to the inner catch block where there is one,
\* else to the catch block of the handler
ReadFails ==
    server' = [server EXCEPT !.read = Append(@, server.body.path),
                             !.step = IF MimeTypeOf(server.body.path) = "text/plain"
                                      THEN "catch" ELSE "fallback"]

\* lines 115-122, 130-139 and 146: the extraction by the type of the path; a
\* read of a missing file fails, and so may pdf-parse and mammoth on any file
Extract ==
    /\ server.step = "extract"
    /\ \/ /\ server.body.path \in server.disk
          /\ ReadSucceeds(IF MimeTypeOf(server.body.path) \in {PdfType, DocxType}
                          THEN FileAt(server.body.path).text
                          ELSE FileAt(server.body.path).raw)
       \/ /\ \/ server.body.path \notin server.disk
             \/ MimeTypeOf(server.body.path) \in {PdfType, DocxType}
          /\ ReadFails
    /\ UNCHANGED lastResumeText
    /\ ServerFrame

\* lines 123-127 and 140-144: the inner catch block reads the file as text
FallbackRead ==
    /\ server.step = "fallback"
    /\ server' = [server EXCEPT
                    !.read = Append(@, server.body.path),
                    !.fileContent = IF server.body.path \in server.disk
                                    THEN Stored(FileAt(server.body.path).raw) ELSE @,
                    !.step = IF server.body.path \in server.disk THEN "validate" ELSE "catch"]
    /\ UNCHANGED lastResumeText
    /\ ServerFrame

\* lines 149-154: a content that is empty or too short is answered 400
RefuseContent ==
    /\ server.step = "validate"
    /\ Refused[server.fileContent.value]
    /\ server' = [server EXCEPT !.responses = Respond(@, 400), !.step = "done"]
    /\ UNCHANGED lastResumeText
    /\ ServerFrame

\* lines 158-161: mlAnalyzer.analyzeResume(fileContent), up to the await of
\* its promise
CallAnalyzer ==
    /\ server.step = "validate"
    /\ ~Refused[server.fileContent.value]
    /\ server.body.useML
    /\ lastResumeText' = StoreText(lastResumeText, server.fileContent.value)
    /\ server' = [server EXCEPT !.invoked = "analyzer",
                                !.analysis = ServerAnalysis[server.fileContent.value],
                                !.step = "awaiting"]
    /\ ServerFrame

\* lines 168-170: no API key, answered 500
RefuseWithoutKey ==
    /\ server.step = "validate"
    /\ ~Refused[server.fileContent.value]
    /\ ~server.body.useML
    /\ ~server.apiKey
    /\ server' = [server EXCEPT !.responses = Respond(@, 500), !.step = "done"]
    /\ UNCHANGED lastResumeText
    /\ ServerFrame

\* lines 172-227: the prompt with the content goes to the provider
CallProvider ==
    /\ server.step = "validate"
    /\ ~Refused[server.fileContent.value]
    /\ ~server.body.useML
    /\ server.apiKey
    /\ server' = [server EXCEPT !.invoked = "provider", !.step = "generating"]
    /\ UNCHANGED lastResumeText
    /\ ServerFrame

\* lines 161-162 and 304: the promise of analyzeResume settles; a report is
\* answered 200, a rejection goes to the catch block
SettleAnalysis ==
    /\ server.step = "awaiting"
    /\ server' = [server EXCEPT
                    !.responses = IF server.analysis.status = "fulfilled"
                                  THEN Respond(@, 200) ELSE @,
                    !.step = IF server.analysis.status = "fulfilled" THEN "done" ELSE "catch"]
    /\ UNCHANGED lastResumeText
    /\ ServerFrame

\* lines 227-229: the provider answers with a text that holds a JSON object,
\* braces around something else, or no braces; or the call fails
Generate ==
    /\ server.step = "generating"
    /\ \/ \E kind \in {"json", "invalid", "absent"} :
              server' = [server EXCEPT !.aiText = kind, !.step = "parse"]
       \/ server' = [server EXCEPT !.step = "catch"]
    /\ UNCHANGED lastResumeText
    /\ ServerFrame

\* lines 232-304: the parsed object or the fallback data is answered 200
AnswerAiResult ==
    /\ server.step = "parse"
    /\ server' = [server EXCEPT !.responses = Respond(@, 200), !.step = "done"]
    /\ UNCHANGED lastResumeText
    /\ ServerFrame

\* lines 306-309: the catch block of the handler
Catch ==
    /\ server.step = "catch"
    /\ server' = [server EXCEPT !.responses = CatchResponse(@), !.step = "done"]
    /\ UNCHANGED lastResumeText
    /\ ServerFrame

\* the continuations of the handler
HandlerStep ==
    \/ Extract
    \/ FallbackRead
    \/ RefuseContent
    \/ CallAnalyzer
    \/ RefuseWithoutKey
    \/ CallProvider
    \/ SettleAnalysis
    \/ Generate
    \/ AnswerAiResult
    \/ Catch

NextServer ==
    \/ UploadRefused
    \/ \E file \in UploadFiles : Upload(file)
    \/ \E body \in Bodies : ReceiveAnalyze(body)
    \/ HandlerStep

SpecServer == InitServer /\ [][NextServer]_vars

\* every awaited operation settles and the event loop runs the continuation
FairSpecServer == SpecServer /\ WF_vars(HandlerStep)

(***************************************************************************)
(* Properties of one call (SpecOverall, SpecText).                         *)
(***************************************************************************)
Returned == pc = "done" /\ outcome.status = "fulfilled"

\* C1: every section score and the overall score of a report that
\* analyzeResume returns is an integer in 0..100.
C1_ScoresInRange ==
    Returned =>
        /\ \A n \in SectionNames : outcome.report.scores[n] \in 0..100
        /\ outcome.report.scores.overall \in 0..100

\* a report whose projects score the clamp has cut down to 100
C1_ClampedProjects ==
    /\ Returned
    /\ PatternMentions(PreprocessText(resumeText), projectPatterns) * 20 > 100
    /\ outcome.report.scores.projects = 100

C3_ValidationErrorVerbatim ==
    (pc = "done" /\ TooShort(resumeText)) =>
        /\ outcome.status = "rejected"
        /\ outcome.error.message = "Resume content is too short or empty"
        /\ outcome.error.name # Rethrown(Error("internal")).name

\* the empty text, whose validation error the catch block has wrapped
C3_WrappedValidationError ==
    /\ pc = "done"
    /\ resumeText = <<>>
    /\ outcome = Rejected(Error("Failed to analyze resume: Resume content is too short or empty"))

\* C4: a returned report holds at most 8 primary skills, 6 recommendations,
\* 6 roadmap steps and 8 target roles.
C4_ListCaps ==
    Returned =>
        /\ Len(outcome.report.primarySkills) <= 8
        /\ Len(outcome.report.detailedRecommendations) <= 6
        /\ Len(outcome.report.roadmap) <= 6
        /\ Len(outcome.report.targetRoles) <= 8

\* a report of a text with more than 8 matched skills
C4_SkillsCut ==
    /\ Returned
    /\ Cardinality({k \in Range(SkillKeywordList) :
                       \E t \in Range(PreprocessText(resumeText)) : k \in KeywordMatches[t]}) > 8
    /\ Len(outcome.report.primarySkills) = 8

\* no digit, percent sign, dollar sign or quantification verb in any line
QuantifierFree(text) ==
    \A i \in 1..Len(text) :
        /\ \A j \in 1..Len(text[i]) : Char(text[i], j) \notin DigitSet \cup {"%", "$"}
        /\ \A verb \in {"increase", "decrease", "improve", "reduce", "save", "generate"} :
              ~Includes(ToLowerCase(text[i]), verb)

\* C6: the recommendations for a text without digit, percent sign, dollar
\* sign and quantification verb include "Resume lacks quantified achievements".
C6_FlagsMissingQuantification ==
    (Returned /\ QuantifierFree(resumeText)) =>
        \E i \in 1..Len(outcome.report.detailedRecommendations) :
            outcome.report.detailedRecommendations[i].problem
                = "Resume lacks quantified achievements"

\* a returned report for a text whose only quantifier-like character is "+"
C6_PlusSignCounts ==
    /\ Returned
    /\ QuantifierFree(resumeText)
    /\ \E i \in 1..Len(resumeText) : \E j \in 1..Len(resumeText[i]) : Char(resumeText[i], j) = "+"
    /\ \A i \in 1..Len(outcome.report.detailedRecommendations) :
          outcome.report.detailedRecommendations[i].problem
              # "Resume lacks quantified achievements"

\* the numbers N of the occurrences "N year", "N yr" (any case, white space
\* allowed between the number and the unit) in s
YearNumbersIn(s) ==
    {ParseInt(SubSeq(s, i, Len(s))) :
        i \in {j \in 1..Len(s) :
                 /\ Char(s, j) \in DigitSet
                 /\ (j = 1 \/ Char(s, j - 1) \notin DigitSet)
                 /\ \E k \in (j + 1)..Len(s) :
                       /\ \A d \in j..(k - 1) :
                             Char(s, d) \in DigitSet \cup WhitespaceSet
                       /\ \A d \in j..(k - 2) :
                             Char(s, d) \in WhitespaceSet => Char(s, d + 1) \in WhitespaceSet
                       /\ \/ OccursAt(ToLowerCase(s), k, "year")
                          \/ OccursAt(ToLowerCase(s), k, "yr")}}

\* the largest such number in a text, 0 when there is none
MentionedYears(text) ==
    IF \A i \in 1..Len(text) : YearNumbersIn(text[i]) = {} THEN 0
    ELSE CHOOSE n \in UNION {YearNumbersIn(text[i]) : i \in 1..Len(text)} :
            \A m \in UNION {YearNumbersIn(text[i]) : i \in 1..Len(text)} : m <= n

\* C7: the level is Senior exactly when years >= 5 or the experience score
\* >= 80, otherwise Mid exactly when years >= 2 or the score >= 60, otherwise
\* Entry; years is the largest mentioned number of years.
C7_LevelThresholds ==
    Returned =>
        /\ outcome.report.experienceLevel = "Senior Level"
              <=> (MentionedYears(resumeText) >= 5 \/ sections.experience >= 80)
        /\ outcome.report.experienceLevel = "Mid Level"
              <=> /\ ~(MentionedYears(resumeText) >= 5 \/ sections.experience >= 80)
                  /\ (MentionedYears(resumeText) >= 2 \/ sections.experience >= 60)
        /\ outcome.report.experienceLevel = "Entry Level"
              <=> /\ MentionedYears(resumeText) < 2
                  /\ sections.experience < 60

\* a Mid level owed to an experience score of exactly 60, the years below 2
C7_MidAtThreshold ==
    /\ Returned
    /\ MentionedYears(resumeText) = 1
    /\ sections.experience = 60
    /\ outcome.report.experienceLevel = "Mid Level"

IndustryOrder ==
    <<"technology", "business", "healthcare", "education", "engineering",
      "creative", "service", "legal", "government", "finance">>

\* the number of keywords of the i-th industry that some token matches
KeywordCount(tokens, indicators, i) ==
    Cardinality({k \in 1..Len(indicators[i].keywords) :
                    \E t \in Range(tokens) : indicators[i].keywords[k] \in KeywordMatches[t]})

\* detected is the first industry of the fixed order whose count is the
\* largest, and "general" exactly when every count is 0
FirstOfLargest(tokens, indicators, detected) ==
    /\ [i \in 1..Len(indicators) |-> indicators[i].name] = IndustryOrder
    /\ detected = "general"
          <=> \A i \in 1..Len(indicators) : KeywordCount(tokens, indicators, i) = 0
    /\ detected # "general" =>
          \E i \in 1..Len(indicators) :
              /\ detected = indicators[i].name
              /\ \A j \in 1..Len(indicators) :
                    KeywordCount(tokens, indicators, j) <= KeywordCount(tokens, indicators, i)
              /\ \A j \in 1..(i - 1) :
                    KeywordCount(tokens, indicators, j) < KeywordCount(tokens, indicators, i)

\* C8: each of the two industry detections returns the first industry of the
\* fixed order with the largest keyword count, a later industry with an equal
\* count never displacing it, and "general" exactly when every count is 0.
C8_FirstLargestWins ==
    Returned =>
        /\ FirstOfLargest(PreprocessText(resumeText), roadmapIndustryIndicators,
                          industry.roadmap)
        /\ FirstOfLargest(PreprocessText(LastTextOrEmpty(lastResumeText)),
                          rolesIndustryIndicators, industry.roles)

\* a detection in which a later industry ties with the detected one
C8_TieKeptByEarlier ==
    /\ Returned
    /\ \E i, j \in 1..Len(roadmapIndustryIndicators) :
          /\ i < j
          /\ industry.roadmap = roadmapIndustryIndicators[i].name
          /\ KeywordCount(PreprocessText(resumeText), roadmapIndustryIndicators, i) > 0
          /\ KeywordCount(PreprocessText(resumeText), roadmapIndustryIndicators, j)
                = KeywordCount(PreprocessText(resumeText), roadmapIndustryIndicators, i)

\* C9: within one call the roadmap and the target roles are made for the
\* same industry.
C9_SameIndustry == Returned => industry.roadmap = industry.roles

\* a call whose roadmap is made for technology and whose roles for healthcare
C9_TechnologyRoadmapHealthcareRoles ==
    /\ Returned
    /\ resumeText = <<TechLine, NurseLine>>
    /\ industry = [roadmap |-> "technology", roles |-> "healthcare"]
    /\ outcome.report.targetRoles[1] = "Healthcare Professional"

(***************************************************************************)
(* Properties of the shared instance (Spec, FairSpec).                     *)
(***************************************************************************)
\* analyzeResume(t) on an analyzer that has served no call before
FreshOutcomes ==
    [t \in RequestTexts |-> AnalyzeResumeOutcome(t, StoreText(Undefined, t))]

\* C5: every call returns what a call with the same text returns on a fresh
\* analyzer, so that two calls with the same text return the same, whatever
\* calls ran on the instance before or between them.
C5_SameTextSameOutcome ==
    /\ \A i \in 1..Len(history) : history[i].outcome = FreshOutcomes[history[i].text]
    /\ \A i, j \in 1..Len(history) :
          history[i].text = history[j].text => history[i].outcome = history[j].outcome

\* two successful calls with one text, a failed call with another between them
C5_RepeatedAfterFailure ==
    /\ Len(history) = 3
    /\ history[1].text = history[3].text
    /\ history[1].outcome.status = "fulfilled"
    /\ history[2].text # history[1].text
    /\ history[2].outcome.status = "rejected"
    /\ history[3].outcome = history[1].outcome

\* caller c has run suggestRoles
HasRead(c) == callers[c].pc = "awaiting" /\ callers[c].outcome.status = "fulfilled"

\* suggestRoles of caller c's invocation read a text that is not the invocation's
CrossRead(c) == HasRead(c) /\ callers[c].readText # callers[c].text

\* two invocations with different texts are in flight
Overlap ==
    \E c, d \in Callers :
        /\ callers[c].pc \in {"stored", "awaiting"}
        /\ callers[d].pc \in {"stored", "awaiting"}
        /\ callers[c].text # callers[d].text

\* C10, what holds of the program: analyzeResume runs from line 419 to the
\* end of suggestRoles without an await, so that no invocation reads a text
\* another invocation stored, however the invocations' callers interleave.
C10_NoCrossRead == \A c \in Callers : ~CrossRead(c)

\* an invocation that has read its own text while the field already holds the
\* text of a later invocation
C10_ReadBeforeOverwritten ==
    \E c \in Callers :
        /\ HasRead(c)
        /\ callers[c].readText = callers[c].text
        /\ lastResumeText # Stored(callers[c].text)

\* C10 as stated: invocations in flight with different texts on one instance
\* lead to an invocation that reads the text of another.
C10_OverlapLeadsToCrossRead == Overlap ~> (\E c \in Callers : CrossRead(c))

(***************************************************************************)
(* Properties of estimateSalary (SpecSalary).                              *)
(***************************************************************************)
\* the number a formatted amount that starts at i stands for, the grouping
\* commas skipped
RECURSIVE Amount(_, _, _)
Amount(s, i, acc) ==
    IF i <= Len(s) /\ Char(s, i) \in DigitSet
    THEN Amount(s, i + 1, acc * 10 + DigitValue(Char(s, i)))
    ELSE IF i <= Len(s) /\ Char(s, i) = "," THEN Amount(s, i + 1, acc)
    ELSE acc

\* the two amounts of a range "$<lower> - $<upper>"
LowerAmount(range) == Amount(range, 2, 0)
UpperAmount(range) ==
    Amount(range, Least({p \in 1..Len(range) : OccursAt(range, p, " - $")}) + 4, 0)

\* the salary band of each tier
Bands ==
    [level \in LevelLabels |->
        IF level = "Entry Level" THEN <<45000, 75000>>
        ELSE IF level = "Mid Level" THEN <<75000, 125000>>
        ELSE <<125000, 185000>>]

\* round(bound * min(1, score / 100 + 0.2)), computed exactly
ExactScaled(bound, score) ==
    IF score >= 80 THEN bound ELSE (bound * (score + 20) + 50) \div 100

SalaryEstimated == pc = "return" /\ salaryExpectation # NoSalary

\* C11: for every overall score in 0..100 and every tier, estimateSalary scales
\* the tier's band by min(1, score / 100 + 0.2): the reported bounds are the
\* rounded products, neither exceeds its band value, and the lower bound is
\* not above the upper bound.
C11_BandScaled ==
    SalaryEstimated =>
        /\ LowerAmount(salaryExpectation.range) = ExactScaled(Bands[experienceTier][1], overall)
        /\ UpperAmount(salaryExpectation.range) = ExactScaled(Bands[experienceTier][2], overall)
        /\ LowerAmount(salaryExpectation.range) <= Bands[experienceTier][1]
        /\ UpperAmount(salaryExpectation.range) <= Bands[experienceTier][2]
        /\ LowerAmount(salaryExpectation.range) <= UpperAmount(salaryExpectation.range)

\* an entry-level estimate scaled by 0.99
C11_ScaledBelowBand ==
    /\ SalaryEstimated
    /\ overall = 79
    /\ experienceTier = "Entry Level"
    /\ salaryExpectation.range = "$44,550 - $74,250"

(***************************************************************************)
(* Properties of the two analyzers (SpecLevels).                           *)
(***************************************************************************)
\* C12: in every analyzeResume call the label classifyExperienceLevel returns is
\* a key of the band table of estimateSalary, in both analyzers, so the lookup
\* never falls back to the entry band for an unknown label.
C12_LabelIsBandKey ==
    /\ Returned =>
           /\ experienceTier \in DOMAIN baseRanges
           /\ outcome.report.experienceLevel = experienceTier
    /\ mlAnalysis # NoMlAnalysis =>
           /\ mlAnalysis.experienceLevel \in DOMAIN mlBaseRanges
           /\ mlAnalysis.range = mlBaseRanges[mlAnalysis.experienceLevel]

\* both analyzers have classified a text that mentions 5 years as senior
C12_SeniorInBoth ==
    /\ Returned
    /\ resumeText = <<TechLine, SkillsLine>>
    /\ experienceTier = "Senior Level"
    /\ mlAnalysis.experienceLevel = "Senior"
    /\ mlAnalysis.range = [min |-> 120000, max |-> 180000]

(***************************************************************************)
(* Properties of the failures of one call (SpecArgs).                      *)
(***************************************************************************)
\* C13: a failure raised inside analyzeResume is reported as a failed call
\* whose message is "Failed to analyze resume: " followed by the message of
\* the cause: a call that has thrown goes to the catch block, and from there
\* it is rejected with the wrapped message; it neither returns a report nor
\* ends without a failure.
C13_FailureWrapped ==
    [][/\ outcome'.status = "thrown" => pc' = "catch"
       /\ pc = "catch" =>
             /\ pc' = "done"
             /\ outcome'.status = "rejected"
             /\ outcome'.error.name = "Error"
             /\ outcome'.error.message = "Failed to analyze resume: " \o outcome.error.message
       /\ pc = "done" => outcome' = outcome]_vars

\* the call with a number has failed with the wrapped TypeError
C13_WrappedTypeError ==
    /\ pc = "done"
    /\ argKind = "number"
    /\ outcome.status = "rejected"
    /\ outcome.error.message = "Failed to analyze resume: resumeText.trim is not a function"

C15_LongEnoughReturns ==
    [][/\ (pc = "try" /\ TrimmedLength(RawText(resumeText)) >= 100) =>
              (pc' = "done" /\ outcome'.status = "fulfilled")
       /\ outcome'.status = "thrown" => TrimmedLength(RawText(resumeText)) < 100
       /\ pc' = "done" =>
              (TrimmedLength(RawText(resumeText)) >= 100 <=> outcome'.status = "fulfilled")]_vars

\* a report for a text of exactly 100 characters
C15_ReportAtExactly100 ==
    /\ Returned
    /\ resumeText = <<TechLine, ContactLine>>
    /\ Len(TechLine) + 1 + Len(ContactLine) = 100
    /\ Len(RawText(resumeText)) = 100

(***************************************************************************)
(* Properties of the methods called on their own (SpecMethods).            *)
(***************************************************************************)
\* the positions of list at which an entry has the title
TitlePositions(list, title) == {i \in 1..Len(list) : list[i].title = title}

Titles(list) == [i \in 1..Len(list) |-> list[i].title]

RoadmapReturned == pc = "generateRoadmap"

\* C16: the roadmap generateRoadmap returns is the three template steps of
\* the detected industry in template order, then the leadership step exactly
\* if the experience score is above 70, then the certification step exactly
\* if the skills score is above 60, then the closing step, and nothing else.
C16_RoadmapOrder ==
    RoadmapReturned =>
        /\ SubSeq(returned, 1, 3) = BaseRoadmap(RoadmapIndustry(resumeText))
        /\ TitlePositions(returned, "Develop Leadership and Management Skills")
              = (IF sections.experience > 70 THEN {4} ELSE {})
        /\ TitlePositions(returned, "Pursue Professional Certifications")
              = (IF sections.skills > 60
                 THEN {IF sections.experience > 70 THEN 5 ELSE 4}
                 ELSE {})
        /\ TitlePositions(returned, "Continuous Professional Development") = {Len(returned)}
        /\ Len(returned) = 4 + (IF sections.experience > 70 THEN 1 ELSE 0)
                             + (IF sections.skills > 60 THEN 1 ELSE 0)

\* the healthcare template, then the two conditional steps in order, then the closing step
C16_HealthcareRoadmap ==
    /\ RoadmapReturned
    /\ resumeText = <<NurseLine>>
    /\ Titles(returned) = <<"Advance Clinical Knowledge", "Develop Patient Care Skills",
                            "Pursue Specialization",
                            "Develop Leadership and Management Skills",
                            "Pursue Professional Certifications",
                            "Continuous Professional Development">>

\* C17, as stated: when the template and both conditional steps are in the
\* roadmap, the cut to 6 items has dropped the closing step.
C17_ClosingDropped ==
    (RoadmapReturned /\ sections.experience > 70 /\ sections.skills > 60) =>
        TitlePositions(returned, "Continuous Professional Development") = {}

\* C17, amended: the cut to 6 items drops nothing; the template, the
\* conditional steps and the closing step are at most 6 items, and the
\* closing step is the last entry of every roadmap returned.
C17_ClosingKept ==
    RoadmapReturned =>
        /\ \A i \in DOMAIN industryRoadmaps : Len(industryRoadmaps[i]) = 3
        /\ returned = RoadmapFor(RoadmapIndustry(resumeText), sections)
        /\ Len(returned) \in 4..6
        /\ returned[Len(returned)].title = "Continuous Professional Development"

\* a roadmap of 6 items with both conditional steps, the closing step the sixth
C17_SixWithClosing ==
    /\ RoadmapReturned
    /\ sections.experience > 70
    /\ sections.skills > 60
    /\ Len(returned) = 6
    /\ returned[6] = [title |-> "Continuous Professional Development", type |-> "learn"]

RecommendationsReturned == pc = "generateRecommendations"

\* the six recommendations in the order of their checks, with their priorities
ProblemOrder ==
    <<"Resume lacks quantified achievements", "Missing industry-standard keywords",
      "Experience section needs improvement", "Skills section is underdeveloped",
      "Limited quantified achievements", "Formatting and structure need improvement">>

PriorityOf(problem) ==
    IF problem \in {ProblemOrder[1], ProblemOrder[3], ProblemOrder[4]} THEN "High" ELSE "Medium"

\* the trigger of each recommendation
Fires(problem) ==
    \/ problem = ProblemOrder[1] /\ ~HasQuantification(resumeText)
    \/ problem = ProblemOrder[2] /\ MissingKeywordsFrom(PreprocessText(resumeText), 1) # <<>>
    \/ problem = ProblemOrder[3] /\ sections.experience < 60
    \/ problem = ProblemOrder[4] /\ sections.skills < 50
    \/ problem = ProblemOrder[5] /\ sections.achievements < 40
    \/ problem = ProblemOrder[6] /\ sections.formatting < 50

Problems(list) == [i \in 1..Len(list) |-> list[i].problem]

\* C18: the list generateRecommendations returns is the sub-sequence, in the
\* order of the checks, of the recommendations whose trigger fires, each with
\* its fixed priority; it is not sorted by priority.
C18_GenerationOrder ==
    RecommendationsReturned =>
        /\ Problems(returned) = SelectSeq(ProblemOrder, Fires)
        /\ \A i \in 1..Len(returned) : returned[i].priority = PriorityOf(returned[i].problem)

\* a Medium recommendation before a High one
C18_MediumBeforeHigh ==
    /\ RecommendationsReturned
    /\ resumeText = <<SalesLine>>
    /\ Len(returned) >= 2
    /\ returned[1].problem = "Missing industry-standard keywords"
    /\ returned[1].priority = "Medium"
    /\ returned[2].problem = "Experience section needs improvement"
    /\ returned[2].priority = "High"

\* the first three keywords of every industry of the taxonomy, in its order,
\* of which fewer than 2 keywords match some token
KeywordPool(tokens) ==
    Flatten([i \in 1..Len(industryKeywords) |->
                IF KeywordCount(tokens, industryKeywords, i) < 2
                THEN SubSeq(industryKeywords[i].keywords, 1, 3)
                ELSE <<>>])

MissingKeywordsAt(list) == TitlePositions([i \in 1..Len(list) |-> [title |-> list[i].problem]],
                                          "Missing industry-standard keywords")

\* C19: generateRecommendations emits the Medium recommendation "Missing
\* industry-standard keywords" exactly if some industry of the taxonomy has
\* fewer than 2 keywords that match a token in either direction, and the
\* keywords it names are the first 5 of the pool of the first 3 keywords of
\* each such industry, in taxonomy order, repetitions kept.
C19_MissingKeywords ==
    RecommendationsReturned =>
        /\ MissingKeywordsAt(returned) # {}
              <=> \E i \in 1..Len(industryKeywords) :
                     KeywordCount(PreprocessText(resumeText), industryKeywords, i) < 2
        /\ \A p \in MissingKeywordsAt(returned) :
              /\ returned[p].priority = "Medium"
              /\ returned[p].keywords
                    = SubSeq(KeywordPool(PreprocessText(resumeText)), 1,
                             Min(5, Len(KeywordPool(PreprocessText(resumeText)))))

\* backend and data_science lack keywords, frontend does not: python is named twice
C19_PythonTwice ==
    /\ RecommendationsReturned
    /\ resumeText = <<FrontendLine>>
    /\ \E p \in MissingKeywordsAt(returned) :
          returned[p].keywords = <<"python", "java", "nodejs", "python", "r">>

RolesReturned == pc = "suggestRoles"

\* the seniority of an experience score, and the first three prefixes of each
Seniority(experience) ==
    IF experience >= 70 THEN "senior" ELSE IF experience >= 40 THEN "mid" ELSE "entry"

Prefixes ==
    [senior |-> <<"Senior", "Lead", "Manager">>,
     mid    |-> <<"Specialist", "Coordinator", "Analyst">>]

\* the titles before the removal of duplicates: the first three base titles of
\* the industry, prefixed for mid and senior, then the two general titles
CandidateRoles(base, seniority) ==
    [i \in 1..3 |-> IF seniority = "entry" THEN base[i]
                    ELSE Prefixes[seniority][i] \o " " \o base[i]]
        \o <<"Professional", "Specialist">>

FirstAt(list, title) == Least({i \in 1..Len(list) : list[i] = title})

\* list is candidates with every repetition after the first removed
FirstOccurrences(list, candidates) ==
    /\ \A i, j \in 1..Len(list) : i # j => list[i] # list[j]
    /\ Range(list) = Range(candidates)
    /\ \A i, j \in 1..Len(list) :
          i < j => FirstAt(candidates, list[i]) < FirstAt(candidates, list[j])

\* C20: suggestRoles takes its seniority from the experience score alone
\* (senior from 70, mid from 40, else entry) and returns the first 3 base
\* titles of the detected industry, unchanged for entry and with the prefix of
\* the same position for mid and senior, then "Professional" and
\* "Specialist", every title once, at its first occurrence.
C20_RolesOfSeniority ==
    RolesReturned =>
        FirstOccurrences(returned,
            CandidateRoles(BaseRoles(RolesIndustry(LastTextOrEmpty(lastResumeText))),
                           Seniority(sections.experience)))

\* no industry detected, entry tier: the two general titles are already among
\* the base titles and appear once
C20_GeneralEntryRoles ==
    /\ RolesReturned
    /\ ~lastResumeText.defined
    /\ sections.experience = 35
    /\ returned = <<"Professional", "Specialist", "Coordinator">>


(***************************************************************************)
(* C21: the feature vector of extractFeatures.                             *)
(***************************************************************************)
FeaturesReturned == pc = "extractFeatures"

\* the keys the code declares, each with the list it counts against and its
\* denominator
DeclaredFeatures ==
    {[key |-> "industry_" \o industryKeywords[i].name, list |-> industryKeywords[i].keywords,
      keywords |-> TRUE, denominator |-> 10] : i \in 1..Len(industryKeywords)}
    \cup {[key |-> "skills_" \o skillCategories[i].name, list |-> skillCategories[i].keywords,
           keywords |-> TRUE, denominator |-> 5] : i \in 1..Len(skillCategories)}
    \cup {[key |-> "experience_indicators", list |-> featureExperiencePatterns,
           keywords |-> FALSE, denominator |-> 20],
          [key |-> "education_indicators", list |-> featureEducationPatterns,
           keywords |-> FALSE, denominator |-> 10],
          [key |-> "achievement_indicators", list |-> featureAchievementPatterns,
           keywords |-> FALSE, denominator |-> 5],
          [key |-> "quantification_indicators", list |-> quantificationPatterns,
           keywords |-> FALSE, denominator |-> 10],
          [key |-> "project_indicators", list |-> featureProjectPatterns,
           keywords |-> FALSE, denominator |-> 15]}

DeclaredKeys ==
    {"industry_frontend", "industry_backend", "industry_data_science", "industry_devops",
     "industry_mobile", "skills_programming_languages", "skills_frameworks",
     "skills_databases", "skills_tools", "skills_soft_skills", "experience_indicators",
     "education_indicators", "achievement_indicators", "quantification_indicators",
     "project_indicators"}

\* the number of the tokens that contain a word of the list
ContainingCount(tokens, words) ==
    Cardinality({i \in 1..Len(tokens) : \E w \in Range(words) : Includes(tokens[i], w)})

\* the number of the tokens that contain one of the strings or are contained
\* in one
EitherWayAmong(tokens, strings) ==
    Cardinality({i \in 1..Len(tokens) :
        \E c \in strings : Includes(tokens[i], c) \/ Includes(c, tokens[i])})

\* the number of the tokens that match a keyword of the list in either direction
EitherWayCount(tokens, keywords) ==
    EitherWayAmong(tokens, {CleanKeyword(k) : k \in Range(keywords)})

\* the number of the tokens that f counts
FeatureCount(tokens, f) ==
    IF f.keywords THEN EitherWayCount(tokens, f.list) ELSE ContainingCount(tokens, f.list)

\* the double v is at most 1 and is the quotient count / denominator rounded
\* to a double, or 1 where the quotient is 1 or more
IsClampedQuotient(v, count, denominator) ==
    /\ ~FloatLess(One, v)
    /\ ~FloatLess(v, <<0, 0, 0>>)
    /\ v = IF count >= denominator THEN One ELSE FloatDiv(count, denominator)

ValuesAsDeclared(featureVector, tokens) ==
    \A f \in DeclaredFeatures :
        IsClampedQuotient(featureVector[f.key], FeatureCount(tokens, f), f.denominator)

\* C21: whatever the tokens, the feature vector has exactly the declared keys,
\* and the value of each is min(1, count / denominator), a number in [0,1],
\* with the denominator of its family.
C21_FeatureVector ==
    FeaturesReturned =>
        /\ DOMAIN returned = DeclaredKeys
        /\ {f.key : f \in DeclaredFeatures} = DeclaredKeys
        /\ ValuesAsDeclared(returned, PreprocessText(resumeText))

\* a feature vector with a clamped value, a value strictly between 0 and 1 and
\* a value 0; and the vector of the empty text
C21_ClampedAndFraction ==
    /\ FeaturesReturned
    /\ resumeText = <<SkillsLine, ToolsLine>>
    /\ returned["skills_frameworks"] = One
    /\ FloatLess(<<0, 0, 0>>, returned["industry_frontend"])
    /\ FloatLess(returned["industry_frontend"], One)
    /\ returned["project_indicators"] = <<0, 0, 0>>


(***************************************************************************)
(* C22: the skills score of scoreSkillsSection.                            *)
(***************************************************************************)
SectionsReturned == pc = "scoreSections"

\* the largest of the categories' counts
LargestCategoryCount(tokens) ==
    CHOOSE m \in {EitherWayCount(tokens, skillCategories[c].keywords) : c \in 1..Len(skillCategories)} :
        \A c \in 1..Len(skillCategories) : EitherWayCount(tokens, skillCategories[c].keywords) <= m

SkillsScoreAsStated(tokens) ==
    Min(100, 8 * ContainingCount(tokens, skillIndicators) + 6 * LargestCategoryCount(tokens))

\* C22: the skills score is min(100, 8 * (tokens containing a skill-indicator
\* word) + 6 * M), M being the largest, not the sum, of the categories' counts
\* of matching tokens, every occurrence of a token counting.
C22_SkillsScore ==
    SectionsReturned => returned.skills = SkillsScoreAsStated(PreprocessText(resumeText))

\* the skills line twice: 2 indicator tokens and 6 tokens in each of two
\* categories give 16 + 36, neither 16 + 72 nor, without multiplicity, 8 + 18
C22_MaxWithMultiplicity ==
    /\ SectionsReturned
    /\ resumeText = <<SkillsLine, SkillsLine>>
    /\ returned.skills = 52


(***************************************************************************)
(* C23: the direction of containment in the counts of the section scorers. *)
(***************************************************************************)
\* the largest of the categories' counts of tokens that contain a keyword
LargestContainingCount(tokens) ==
    CHOOSE m \in {ContainingCount(tokens, [k \in 1..Len(skillCategories[c].keywords) |->
                        CleanKeyword(skillCategories[c].keywords[k])]) : c \in 1..Len(skillCategories)} :
        \A c \in 1..Len(skillCategories) :
            ContainingCount(tokens, [k \in 1..Len(skillCategories[c].keywords) |->
                CleanKeyword(skillCategories[c].keywords[k])]) <= m

\* the four scores that count tokens against a pattern list only, every count
\* being of the tokens that contain a pattern
PatternScoresOneDirection(s, text, tokens) ==
    /\ s.experience = Min(100, 10 * ContainingCount(tokens, experiencePatterns)
                                 + 5 * SumOverLines(text, LineTimeMentions))
    /\ s.education = Min(100, 15 * ContainingCount(tokens, educationPatterns))
    /\ s.projects = Min(100, 20 * ContainingCount(tokens, projectPatterns))
    /\ s.achievements = Min(100, 10 * ContainingCount(tokens, achievementPatterns)
                                   + 5 * SumOverLines(text, LineQuantified))

\* C23 as stated: every count of every section scorer is of the tokens that
\* contain the pattern or keyword, so a token that is only a part of one is
\* never counted.
C23_OneDirectionOnly ==
    SectionsReturned =>
        /\ PatternScoresOneDirection(returned, resumeText, PreprocessText(resumeText))
        /\ returned.skills =
               Min(100, 8 * ContainingCount(PreprocessText(resumeText), skillIndicators)
                        + 6 * LargestContainingCount(PreprocessText(resumeText)))

\* C23, amended: the counts against the pattern lists (skill indicators,
\* experience, education, project and achievement patterns) are of the tokens
\* that contain a pattern; the count of scoreSkillsSection against the keywords
\* of a skill category takes a token that contains the keyword or is contained
\* in it.
C23_PatternsOneDirection ==
    SectionsReturned =>
        /\ PatternScoresOneDirection(returned, resumeText, PreprocessText(resumeText))
        /\ returned.skills =
               Min(100, 8 * ContainingCount(PreprocessText(resumeText), skillIndicators)
                        + 6 * LargestCategoryCount(PreprocessText(resumeText)))

\* "work", three times a token, is a part of the keyword "teamwork" and counts
\* for the skills score; "design" is a part of the pattern "designed" and does
\* not count for the projects score
C23_PartOfKeywordCounted ==
    /\ SectionsReturned
    /\ resumeText = <<WorkLine>>
    /\ ContainingCount(PreprocessText(resumeText), skillIndicators) = 0
    /\ LargestContainingCount(PreprocessText(resumeText)) = 0
    /\ returned.skills = 18
    /\ "design" \in Range(PreprocessText(resumeText))
    /\ returned.projects = 0


(***************************************************************************)
(* C24: the formatting score of scoreFormatting.                           *)
(***************************************************************************)
\* the number of the characters of s that are in set
Occurrences(s, set) == Cardinality({i \in 1..Len(s) : SubSeq(s, i, i) \in set})

\* the number of capital letters of s followed by a small letter
CapitalizedWords(s) ==
    Cardinality({i \in 1..(Len(s) - 1) :
        SubSeq(s, i, i) \in UpperSet /\ SubSeq(s, i + 1, i + 1) \in LowerSet})

\* the four checks on the raw text raw
FourChecks(raw) ==
    (IF Occurrences(raw, {"\n"}) > 10 THEN 25 ELSE 10)
    + (IF Occurrences(raw, {"-", "*"}) > 5 THEN 25 ELSE 10)
    + (IF Occurrences(raw, {":"}) > 3 THEN 20 ELSE 5)
    + (IF CapitalizedWords(raw) > 20 THEN 20 ELSE 10)

\* C24: the formatting score is the sum of the four checks on the raw text
\* (newlines > 10: 25 else 10; bullets > 5: 25 else 10; colons > 3: 20 else 5;
\* capitalized words > 20: 20 else 10); it lies between 35 and 90, so the
\* clamp to 100 leaves it as it is.
C24_FormattingScore ==
    SectionsReturned =>
        /\ returned.formatting = FourChecks(RawText(resumeText))
        /\ returned.formatting >= 35
        /\ returned.formatting <= 90

\* a text that passes all four checks, one exactly at the newline threshold
\* that passes the other three, and one that passes the bullet check alone
C24_AllFourPass ==
    /\ SectionsReturned
    /\ \/ resumeText = Alternating(BulletLine, SkillsLine, 12) /\ returned.formatting = 90
       \/ resumeText = Alternating(BulletLine, SkillsLine, 11) /\ returned.formatting = 75
       \/ resumeText = <<BulletLine, BulletLine>> /\ returned.formatting = 50


(***************************************************************************)
(* C25: the list of detectPrimarySkills.                                   *)
(***************************************************************************)
PrimarySkillsReturned == pc = "detectPrimarySkills"

\* the keywords of the skill taxonomy, and the place of each in it
TaxonomyKeywords == KeywordsOf(skillCategories)

TaxonomyPlace(keyword) ==
    CHOOSE n \in 1..Len(SkillKeywordList) : SkillKeywordList[n] = keyword

\* for every keyword, the number of the tokens that match it in either direction
MatchingTokens(tokens) == [k \in TaxonomyKeywords |-> EitherWayCount(tokens, <<k>>)]

\* keyword a ranks before keyword b: more matching tokens or, with as many,
\* an earlier place in the taxonomy
RanksBefore(counts, a, b) ==
    \/ counts[a] > counts[b]
    \/ counts[a] = counts[b] /\ TaxonomyPlace(a) < TaxonomyPlace(b)

Matched(counts) == {k \in TaxonomyKeywords : counts[k] > 0}

RankedPrimarySkills(list, counts) ==
    /\ Range(list) \subseteq Matched(counts)
    /\ \A i, j \in 1..Len(list) : i < j => list[i] # list[j] /\ RanksBefore(counts, list[i], list[j])
    /\ Len(list) = Min(8, Cardinality(Matched(counts)))
    /\ \A k \in Matched(counts) \ Range(list) :
           \A i \in 1..Len(list) : RanksBefore(counts, list[i], k)

\* C25: primarySkills holds only taxonomy keywords with a matching token, none
\* twice, by falling count of matching tokens and, among equal counts, in
\* taxonomy order; it holds all of them, or the 8 first-ranked if more than 8
\* match.
C25_PrimarySkillsRanked ==
    PrimarySkillsReturned =>
        RankedPrimarySkills(returned, MatchingTokens(PreprocessText(resumeText)))

\* fourteen keywords match; "java", with two matching tokens, has moved before
\* "python", and the list stops after the eighth
C25_EightOfFourteen ==
    /\ PrimarySkillsReturned
    /\ resumeText = <<SkillsLine, ToolsLine>>
    /\ Cardinality(Matched(MatchingTokens(PreprocessText(resumeText)))) = 14
    /\ returned = <<"javascript", "java", "python", "go", "react", "vue", "angular", "express">>


(***************************************************************************)
(* C29: the tier of the classifier and the titles of the role suggester.   *)
(***************************************************************************)
StartsWith(title, prefix) ==
    Len(title) >= Len(prefix) /\ SubSeq(title, 1, Len(prefix)) = prefix

SeniorTierPrefixes == {"Senior ", "Lead ", "Manager "}

\* C29: in a report with experienceLevel 'Entry Level', no title of targetRoles
\* starts with a senior-tier prefix (Senior, Lead, Manager).
C29_EntryWithoutSeniorTitles ==
    (Returned /\ outcome.report.experienceLevel = "Entry Level") =>
        \A i \in 1..Len(outcome.report.targetRoles) :
            \A prefix \in SeniorTierPrefixes :
                ~StartsWith(outcome.report.targetRoles[i], prefix)

\* an Entry Level report whose experience score, from 40 to 59, puts the role
\* suggester on its mid tier: the titles carry the mid-tier prefixes
C29_EntryWithMidTitles ==
    /\ Returned
    /\ outcome.report.experienceLevel = "Entry Level"
    /\ sections.experience >= 40
    /\ \E i \in 1..Len(outcome.report.targetRoles) :
           StartsWith(outcome.report.targetRoles[i], "Specialist ")


(***************************************************************************)
(* C30: strengths and weaknesses of a report.                              *)
(***************************************************************************)
StrengthFallback == "Shows potential for development and learning"
WeaknessFallback == "Minor improvements needed for optimal impact"

\* the sentences of the strength thresholds that fire for the scores s; the
\* first one ends with the skills it names
StrengthSentences(s) ==
    (IF s.skills >= 80 THEN {"Strong technical skills including "} ELSE {})
    \cup (IF s.experience >= 75
          THEN {"Extensive professional experience with clear career progression"} ELSE {})
    \cup (IF s.achievements >= 70
          THEN {"Quantified achievements demonstrating measurable impact"} ELSE {})
    \cup (IF s.formatting >= 80
          THEN {"Well-structured and professionally formatted resume"} ELSE {})
    \cup (IF s.projects >= 60
          THEN {"Solid project portfolio and hands-on experience"} ELSE {})

WeaknessSentences(s) ==
    (IF s.skills < 50
     THEN {"Technical skills section needs more detail and specificity"} ELSE {})
    \cup (IF s.experience < 50 THEN {"Limited work experience documentation"} ELSE {})
    \cup (IF s.achievements < 40
          THEN {"Could include more quantified results and achievements"} ELSE {})
    \cup (IF s.formatting < 50
          THEN {"Formatting and structure could be improved for better readability"}
          ELSE {})

\* list is the fallback alone if no threshold fires, and otherwise one entry
\* for every sentence that fires and nothing else
FallbackOrTriggered(list, sentences, fallback) ==
    /\ Len(list) > 0
    /\ (list = <<fallback>>) <=> (sentences = {})
    /\ sentences # {} =>
           /\ Len(list) = Cardinality(sentences)
           /\ \A i \in 1..Len(list) : \E t \in sentences : StartsWith(list[i], t)
           /\ \A t \in sentences : \E i \in 1..Len(list) : StartsWith(list[i], t)

\* C30: in every report, strengths and weaknesses are non-empty; each is its
\* fallback sentence alone exactly when none of its thresholds fires, and holds
\* otherwise the entries of the thresholds that fire and no other.
C30_StrengthsAndWeaknesses ==
    Returned =>
        /\ FallbackOrTriggered(outcome.report.strengths,
                               StrengthSentences(sections), StrengthFallback)
        /\ FallbackOrTriggered(outcome.report.weaknesses,
                               WeaknessSentences(sections), WeaknessFallback)

\* a report with no weakness threshold firing and three strengths or more
C30_NoWeaknessThreeStrengths ==
    /\ Returned
    /\ WeaknessSentences(sections) = {}
    /\ outcome.report.weaknesses = <<WeaknessFallback>>
    /\ Len(outcome.report.strengths) >= 3
    /\ StrengthFallback \notin Range(outcome.report.strengths)


(***************************************************************************)
(* Properties of the /analyze handler (SpecServer, FairSpecServer).        *)
(***************************************************************************)
\* a request has been received and its body lacks filename or path
LacksField == server.served > 0 /\ (server.body.filename = "" \/ server.body.path = "")

\* the handler has read a content that is empty or of trimmed length below 100
ShortContentRead ==
    /\ server.fileContent.defined
    /\ \/ RawText(server.fileContent.value) = ""
       \/ TrimmedLength(RawText(server.fileContent.value)) < 100

\* C26: the handler calls neither the analyzer nor the AI provider for a
\* content that is empty or of trimmed length below 100: it answers 400; so the
\* length check of analyzeResume never fails for a request of the server.  A
\* request without filename or path is answered 400 with no file read.
C26_ShortContentNeverAnalyzed ==
    /\ server.invoked # "none" => server.fileContent.defined /\ ~ShortContentRead
    /\ ShortContentRead =>
           /\ server.invoked = "none"
           /\ server.step \in {"validate", "done"}
           /\ server.step = "done" => server.responses = <<400>>
    /\ server.analysis.status # "rejected"
    /\ LacksField =>
           server.read = <<>> /\ server.step = "done" /\ server.responses = <<400>>

\* the request for the uploaded short document, answered 400 with no analysis
C26_ShortDocumentRefused ==
    /\ server.body.path = "uploads/2-short.docx"
    /\ server.fileContent = Stored(ShortText)
    /\ server.step = "done"
    /\ server.responses = <<400>>
    /\ server.invoked = "none"

\* C27: every /analyze request gets exactly one response, 200, 400 or 500:
\* never a second one, one when the handler is through, and the handler gets
\* through on every path if every awaited operation settles.
C27_ExactlyOneResponse ==
    /\ [](Len(server.responses) <= 1)
    /\ [](server.step = "done" =>
             Len(server.responses) = 1 /\ server.responses[1] \in {200, 400, 500})
    /\ (server.step \notin {"idle", "done"}) ~> (server.step = "done")

\* a request answered 500 after the extraction and the fallback read of a
\* missing file have both failed
C27_AnsweredAfterTwoFailedReads ==
    /\ server.step = "done"
    /\ Len(server.read) = 2
    /\ ~server.fileContent.defined
    /\ server.responses = <<500>>

\* C28 as stated: every path the handler reads is one an earlier /upload has
\* answered with.
C28_OnlyUploadedPathsRead ==
    \A i \in 1..Len(server.read) : server.read[i] \in server.stored

\* with no upload at all, the handler has read server.js, the path the body
\* named, has handed its content to the analyzer and has answered 200
C28_ServerFileAnalyzed ==
    /\ server.stored = {}
    /\ server.read = <<"server.js">>
    /\ server.invoked = "analyzer"
    /\ server.responses = <<200>>

====
